---- MODULE Spec2Model ----
(***************************************************************************)
(* A model of the better-file-color plugin: the colour resolution pass of  *)
(* FileColorPlugin.applyColorStylesInternal, the condition evaluator, and  *)
(* the write operations of the settings panel and of the group edit form.  *)
(*                                                                         *)
(* Strings whose characters the code inspects (paths, regex patterns,      *)
(* colour values, names) are sequences of one-character strings.  Ids and  *)
(* property names, which the code only compares, are TLA+ strings.         *)
(***************************************************************************)
EXTENDS Integers, Sequences, FiniteSets, TLC

VARIABLES
    settings,      \* plugin.settings: flags, palette, fileColors, groups
    frontmatter,   \* metadataCache: path -> parsed frontmatter
    fileItems,     \* fileExplorer.view.fileItems, in Object.entries order
    el,            \* per item: its file-color classes and inline colour property
    phase,         \* position of the resolution pass
    nextItem,      \* index of the next item the forEach of the pass visits
    microtasks,    \* FIFO of the item callbacks suspended at an await
    cssType,       \* the cssType constant of the pass in flight
    palette,       \* SettingsPanel: the palette being edited (React state)
    groups,        \* SettingsPanel: the group list (React state)
    colorErrorQueue, \* SettingsPanel: errors of the last palette save
    disk,          \* what saveData last persisted
    savePending,   \* the timer of the debounced saveSettingsInternal is armed
    applyPending,  \* the timer of the debounced applyColorStyles is armed
    form,          \* ConfigureRuleContent: the fields of the group edit form
    minted,        \* how many ids nanoid() has handed out
    lastOp         \* the last operation taken and its inputs (history)

vars == <<settings, frontmatter, fileItems, el, phase, nextItem, microtasks,
          cssType, palette, groups, colorErrorQueue, disk, savePending,
          applyPending, form, minted, lastOp>>

passVars == <<el, phase, nextItem, microtasks, cssType>>
envVars == <<frontmatter, fileItems>>
panelVars == <<palette, groups, colorErrorQueue, disk, savePending, form, minted>>

----------------------------------------------------------------------------
(* Strings as sequences of characters *)

WhiteSpace == {" "}
LowerCase == <<"a", "b", "c", "d", "e", "f", "g", "n", "r", "x", "z">>
UpperCase == <<"A", "B", "C", "D", "E", "F", "G", "N", "R", "X", "Z">>
HexChars == {"0", "1", "2", "3", "4", "5", "6", "7", "8", "9",
             "a", "b", "c", "d", "e", "f", "A", "B", "C", "D", "E", "F"}

IndexIn(c, chars) ==
    IF \E i \in 1..Len(chars) : chars[i] = c
    THEN CHOOSE i \in 1..Len(chars) : chars[i] = c
    ELSE 0

\* String.prototype.toUpperCase / toLowerCase, character by character
ToUpperChar(c) == IF IndexIn(c, LowerCase) > 0 THEN UpperCase[IndexIn(c, LowerCase)] ELSE c
ToLowerChar(c) == IF IndexIn(c, UpperCase) > 0 THEN LowerCase[IndexIn(c, UpperCase)] ELSE c
ToUpperCase(s) == [i \in 1..Len(s) |-> ToUpperChar(s[i])]
ToLowerCase(s) == [i \in 1..Len(s) |-> ToLowerChar(s[i])]

\* String.prototype.trim
RECURSIVE TrimStart(_)
TrimStart(s) ==
    IF s # <<>> /\ Head(s) \in WhiteSpace THEN TrimStart(Tail(s)) ELSE s
RECURSIVE TrimEnd(_)
TrimEnd(s) ==
    IF s # <<>> /\ s[Len(s)] \in WhiteSpace THEN TrimEnd(SubSeq(s, 1, Len(s) - 1)) ELSE s
Trim(s) == TrimEnd(TrimStart(s))

\* String.prototype.lastIndexOf(c), 1-based; 0 when c does not occur
LastIndexOf(s, c) ==
    IF \E i \in 1..Len(s) : s[i] = c
    THEN CHOOSE i \in 1..Len(s) : s[i] = c /\ \A j \in (i + 1)..Len(s) : s[j] # c
    ELSE 0

\* String.prototype.substring(from), with from 0-based as in the code
SubstringFrom(s, from) == SubSeq(s, from + 1, Len(s))
\* String.prototype.substring(0, to)
SubstringTo(s, to) == SubSeq(s, 1, to)

\* String.prototype.startsWith
StartsWith(s, prefix) ==
    Len(prefix) <= Len(s) /\ SubSeq(s, 1, Len(prefix)) = prefix

\* a containment test that looks at the start of the string only
IncludesAtStart(s, part) == StartsWith(s, part)

\* String.prototype.includes
Includes(s, part) ==
    \E i \in 1..(Len(s) + 1) :
        i + Len(part) - 1 <= Len(s) /\ SubSeq(s, i, i + Len(part) - 1) = part

AllHex(s) == \A i \in 1..Len(s) : s[i] \in HexChars

----------------------------------------------------------------------------
(* new RegExp(pattern) and regex.test, for the patterns made of literal     *)
(* characters, escaped characters, the wildcard ".", the anchors "^" and    *)
(* "$", and "(" which, never closed in these patterns, does not compile.    *)

RECURSIVE RegExpAtoms(_)
RegExpAtoms(p) ==
    IF p = <<>> THEN <<>>
    ELSE IF Head(p) = "\\"
         THEN <<[any |-> FALSE, ch |-> p[2]]>> \o RegExpAtoms(SubSeq(p, 3, Len(p)))
         ELSE <<[any |-> Head(p) = ".", ch |-> Head(p)]>> \o RegExpAtoms(Tail(p))

RECURSIVE EscapesClosed(_)
EscapesClosed(p) ==
    IF p = <<>> THEN TRUE
    ELSE IF Head(p) = "\\" THEN Len(p) >= 2 /\ EscapesClosed(SubSeq(p, 3, Len(p)))
         ELSE EscapesClosed(Tail(p))

\* new RegExp(pattern) does not throw
RegExpCompiles(p) == EscapesClosed(p) /\ \A i \in 1..Len(p) : p[i] # "(" \/ (i > 1 /\ p[i - 1] = "\\")

RegExpTest(p, target) ==
    LET fromStart == p # <<>> /\ Head(p) = "^"
        p1 == IF fromStart THEN Tail(p) ELSE p
        toEnd == p1 # <<>> /\ p1[Len(p1)] = "$"
                 /\ ~(Len(p1) >= 2 /\ p1[Len(p1) - 1] = "\\")
        atoms == RegExpAtoms(IF toEnd THEN SubSeq(p1, 1, Len(p1) - 1) ELSE p1)
        n == Len(atoms)
    IN \E i \in 1..(Len(target) + 1) :
          /\ fromStart => i = 1
          /\ i + n - 1 <= Len(target)
          /\ toEnd => i + n - 1 = Len(target)
          /\ \A k \in 1..n : atoms[k].any \/ atoms[k].ch = target[i + k - 1]

----------------------------------------------------------------------------
(* The vault and the metadata cache *)

FolderX == <<"X">>
NoteX == <<"X", "/", "X", ".", "m", "d">>
TextX == <<"X", "/", "X", ".", "g">>

\* the abstract files of the vault; the folders among them
VaultPaths == {FolderX, NoteX, TextX}
VaultFolders == {FolderX}

Range(seq) == {seq[i] : i \in 1..Len(seq)}

\* TFile.extension: the part of the file name after its last dot
FileExtension(path) ==
    LET name == SubstringFrom(path, LastIndexOf(path, "/"))
    IN IF LastIndexOf(name, ".") = 0 THEN <<>>
       ELSE SubstringFrom(name, LastIndexOf(name, "."))

\* file && 'extension' in file && file.extension === 'md'
IsMarkdownFile(path) ==
    /\ path \in VaultPaths
    /\ path \notin VaultFolders
    /\ FileExtension(path) = <<"m", "d">>

\* frontmatter values: undefined, a string, or an array of strings
Undefined == [t |-> "undefined", v |-> <<>>]
Str(chars) == [t |-> "string", v |-> chars]
Arr(elems) == [t |-> "array", v |-> elems]

RECURSIVE Join(_)
Join(elems) ==
    IF elems = <<>> THEN <<>>
    ELSE IF Len(elems) = 1 THEN elems[1]
    ELSE elems[1] \o <<",">> \o Join(Tail(elems))

\* String(value)
JsString(value) ==
    IF value.t = "string" THEN value.v
    ELSE IF value.t = "array" THEN Join(value.v)
    ELSE <<"u", "n", "d", "e", "f", "i", "n", "e", "d">>

\* the truthiness of a frontmatter value
Truthy(value) ==
    \/ value.t = "array"
    \/ value.t = "string" /\ value.v # <<>>

NoFrontmatter == [present |-> FALSE, props |-> [n \in {} |-> Undefined]]
Frontmatter(props) == [present |-> TRUE, props |-> props]

\* frontmatter[name]
Prop(fm, name) == IF name \in DOMAIN fm.props THEN fm.props[name] ELSE Undefined

----------------------------------------------------------------------------
(* Condition Evaluator *)

\* an evaluator for which a pattern that does not compile matches everything
EvaluateConditionLenient(path, condition) ==
    IF condition.type = "regex"
    THEN IF ~RegExpCompiles(condition.pattern) THEN TRUE
         ELSE LET targetString ==
                      IF condition.matchFullPath THEN path
                      ELSE SubstringFrom(path, LastIndexOf(path, "/"))
              IN RegExpTest(condition.pattern, targetString)
    ELSE IF condition.type = "property"
    THEN IF ~IsMarkdownFile(path) THEN FALSE
         ELSE LET fm == frontmatter[path]
                  propValue == Prop(fm, condition.propertyName)
              IN IF ~fm.present THEN FALSE
                 ELSE IF propValue = Undefined THEN FALSE
                 ELSE IF condition.propertyOperator = "exists" THEN TRUE
                 ELSE IF condition.propertyOperator = "equals"
                      THEN JsString(propValue) = condition.propertyValue
                 ELSE IF condition.propertyOperator = "contains"
                      THEN IF propValue.t = "array"
                           THEN \E i \in 1..Len(propValue.v) :
                                    propValue.v[i] = condition.propertyValue
                           ELSE Includes(JsString(propValue), condition.propertyValue)
                 ELSE FALSE
    ELSE FALSE

EvaluateCondition(path, condition) ==
    IF condition.type = "regex"
    THEN IF ~RegExpCompiles(condition.pattern) THEN FALSE
         ELSE LET targetString ==
                      IF condition.matchFullPath THEN path
                      ELSE SubstringFrom(path, LastIndexOf(path, "/"))
              IN RegExpTest(condition.pattern, targetString)
    ELSE IF condition.type = "property"
    THEN IF ~IsMarkdownFile(path) THEN FALSE
         ELSE LET fm == frontmatter[path]
                  propValue == Prop(fm, condition.propertyName)
              IN IF ~fm.present THEN FALSE
                 ELSE IF propValue = Undefined THEN FALSE
                 ELSE IF condition.propertyOperator = "exists" THEN TRUE
                 ELSE IF condition.propertyOperator = "equals"
                      THEN JsString(propValue) = condition.propertyValue
                 ELSE IF condition.propertyOperator = "contains"
                      THEN IF propValue.t = "array"
                           THEN \E i \in 1..Len(propValue.v) :
                                    propValue.v[i] = condition.propertyValue
                           ELSE Includes(JsString(propValue), condition.propertyValue)
                 ELSE FALSE
    ELSE FALSE

----------------------------------------------------------------------------
(* Color Resolver: the callback of applyColorStylesInternal for one item *)

\* colorValue / isHexColor: a palette id, a literal hex, or neither
NoColor == [isHexColor |-> FALSE, id |-> "", hex |-> <<>>]
PaletteRef(id) == [isHexColor |-> FALSE, id |-> id, hex |-> <<>>]
LiteralHex(hex) == [isHexColor |-> TRUE, id |-> "", hex |-> hex]

\* if (colorValue)
HasColor(color) == color.id # "" \/ color.hex # <<>>

\* this.settings.fileColors.find(file => file.path === path)?.color
ManualColor(path) ==
    LET fc == settings.fileColors
    IN IF \E i \in 1..Len(fc) : fc[i].path = path
       THEN PaletteRef(fc[CHOOSE i \in 1..Len(fc) :
                           fc[i].path = path /\ \A j \in 1..(i - 1) : fc[j].path # path].color)
       ELSE NoColor

\* an unstable step: g goes before the elements of equal priority
InsertBeforeEqual(sorted, g) ==
    LET k == Cardinality({i \in 1..Len(sorted) : sorted[i].priority > g.priority})
    IN SubSeq(sorted, 1, k) \o <<g>> \o SubSeq(sorted, k + 1, Len(sorted))

\* one step of a stable sort by descending priority: g goes after every
\* element whose priority is not lower
InsertByPriority(sorted, g) ==
    LET k == Cardinality({i \in 1..Len(sorted) : sorted[i].priority >= g.priority})
    IN SubSeq(sorted, 1, k) \o <<g>> \o SubSeq(sorted, k + 1, Len(sorted))

\* [...gs].sort((a, b) => b.priority - a.priority), which is stable
RECURSIVE SortByPriority(_)
SortByPriority(gs) ==
    IF gs = <<>> THEN <<>>
    ELSE InsertByPriority(SortByPriority(SubSeq(gs, 1, Len(gs) - 1)), gs[Len(gs)])

IsEnabled(group) == group.enabled

\* settings.groups.filter(group => group.enabled).sort(...)
EnabledGroups == SortByPriority(SelectSeq(settings.groups, IsEnabled))

\* a pattern that also takes three digits: /^#?([0-9A-Fa-f]{3}){1,2}$/
HexPatternShort(colorStr) ==
    LET digits == IF colorStr # <<>> /\ Head(colorStr) = "#" THEN Tail(colorStr) ELSE colorStr
    IN Len(digits) \in {3, 6} /\ AllHex(digits)

\* the hexPattern test of the resolver: /^#?[0-9A-Fa-f]{6}$/
HexPattern(colorStr) ==
    LET digits == IF colorStr # <<>> /\ Head(colorStr) = "#" THEN Tail(colorStr) ELSE colorStr
    IN Len(digits) = 6 /\ AllHex(digits)

\* the colour a matching group gives to path
GroupColor(path, group) ==
    IF group.usePropertyAsColor
    THEN IF ~IsMarkdownFile(path) THEN NoColor
         ELSE LET fm == frontmatter[path]
                  value == Prop(fm, group.propertyNameForColor)
                  colorStr == Trim(JsString(value))
              IN IF fm.present /\ Truthy(value) /\ HexPattern(colorStr)
                 THEN LiteralHex(IF StartsWith(colorStr, <<"#">>) THEN colorStr
                                 ELSE <<"#">> \o colorStr)
                 ELSE NoColor
    ELSE PaletteRef(group.colorId)

\* the loop stops at group i whether it has conditions or not
NextAwaitAnyGroup(gs, i) == IF i <= Len(gs) THEN i ELSE 0

\* the index of the first group at or after i whose condition list is not
\* empty (groups without conditions are skipped by "continue"); 0 if none
NextAwait(gs, i) ==
    IF \E j \in i..Len(gs) : gs[j].conditions # <<>>
    THEN CHOOSE j \in i..Len(gs) :
             gs[j].conditions # <<>> /\ \A k \in i..(j - 1) : gs[k].conditions = <<>>
    ELSE 0

\* group.conditions.map(condition => this.evaluateCondition(path, condition))
ConditionsResults(path, group) ==
    [k \in 1..Len(group.conditions) |-> EvaluateCondition(path, group.conditions[k])]

\* a test that looks at the first result only
FirstConditionMatches(results) == results[1] = TRUE

\* conditionsResults.every(result => result === true)
AllConditionsMatch(results) == \A k \in 1..Len(results) : results[k] = TRUE

\* the loop over the groups ends at this group at any match
LoopBreaksOnMatch(matched, color) == matched

\* "if (allConditionsMatch) { ... if (colorValue) break }": the loop over the
\* groups ends at a group that matches and gives a colour
LoopBreaks(matched, color) == matched /\ HasColor(color)

\* the file-color classes pushed for a coloured item
FileColorClasses(color, type, cascade) ==
    {"file-color-file", "file-color-type-" \o type}
        \cup (IF color.isHexColor THEN {} ELSE {"file-color-color-" \o color.id})
        \cup (IF cascade THEN {"file-color-cascade"} ELSE {})

\* the folder whose name is the item's name without extension and which
\* holds the item: the set is empty when the names differ
FolderNoteTarget(path) ==
    LET lastSlash == LastIndexOf(path, "/")
        fileBaseName == IF lastSlash >= 1 THEN SubstringFrom(path, lastSlash) ELSE path
        lastDot == LastIndexOf(fileBaseName, ".")
        fileNameWithoutExt ==
            IF lastDot >= 1 THEN SubstringTo(fileBaseName, lastDot - 1) ELSE fileBaseName
        parentFolderPath == IF lastSlash >= 1 THEN SubstringTo(path, lastSlash - 1) ELSE <<>>
        parentFolderName ==
            SubstringFrom(parentFolderPath, LastIndexOf(parentFolderPath, "/"))
    IN IF parentFolderName = fileNameWithoutExt THEN {parentFolderPath} ELSE {}

\* steps 3 and 4 of the callback and its final write of the item's classes
ApplyColor(dom, path, color) ==
    LET classes == IF HasColor(color)
                   THEN FileColorClasses(color, cssType, settings.cascadeColors)
                   ELSE {}
        own == IF ~HasColor(color) THEN [dom EXCEPT ![path].style = <<>>]
               ELSE IF color.isHexColor THEN [dom EXCEPT ![path].style = color.hex]
               ELSE dom
        folders == IF HasColor(color) /\ settings.folderNotesCompatibility
                   THEN FolderNoteTarget(path) \cap Range(fileItems)
                   ELSE {}
        noted == [p \in DOMAIN own |->
                    IF p \in folders
                    THEN [classes |-> classes,
                          style |-> IF color.isHexColor THEN color.hex ELSE own[p].style]
                    ELSE own[p]]
    IN [noted EXCEPT ![path].classes = classes]

\* the for loop over enabledGroups from index i up to its next await: the
\* callback either suspends at group j or leaves the loop without a colour
RunLoop(dom, queue, path, gs, i) ==
    LET j == NextAwait(gs, i)
    IN IF j = 0
       THEN [dom |-> ApplyColor(dom, path, NoColor), queue |-> queue]
       ELSE [dom |-> dom,
             queue |-> Append(queue, [path |-> path, enabledGroups |-> gs, index |-> j,
                                      conditionsResults |-> ConditionsResults(path, gs[j])])]

\* the callback goes to the groups without looking for a manual colour
BeginItemGroupsOnly(dom, queue, path) == RunLoop(dom, queue, path, EnabledGroups, 1)

\* the callback of one item up to its first await (or to its end)
BeginItem(dom, queue, path) ==
    IF HasColor(ManualColor(path))
    THEN [dom |-> ApplyColor(dom, path, ManualColor(path)), queue |-> queue]
    ELSE RunLoop(dom, queue, path, EnabledGroups, 1)

\* the callback at the head of the microtask queue, from its await on
ResumeItem(dom, queue) ==
    LET job == Head(queue)
        group == job.enabledGroups[job.index]
        allConditionsMatch == AllConditionsMatch(job.conditionsResults)
        color == IF allConditionsMatch THEN GroupColor(job.path, group) ELSE NoColor
    IN IF LoopBreaks(allConditionsMatch, color)
       THEN [dom |-> ApplyColor(dom, job.path, color), queue |-> Tail(queue)]
       ELSE RunLoop(dom, Tail(queue), job.path, job.enabledGroups, job.index + 1)

----------------------------------------------------------------------------
(* The resolution pass *)

\* every callback of the pass in flight has run to its end
PassDone == phase = "pass" /\ nextItem > Len(fileItems) /\ microtasks = <<>>

\* handlers and timers that run whatever the pass is at
NoPassInFlightUnchecked == TRUE

\* no callback of a pass is suspended: the microtasks of a pass all run before
\* the next timer or event handler does
NoPassInFlight == phase = "idle" \/ PassDone

\* the timer of the debounced applyColorStyles fires: applyColorStylesInternal
\* is entered
StartPass ==
    /\ applyPending
    /\ NoPassInFlight
    /\ applyPending' = FALSE
    /\ cssType' = IF settings.colorBackground THEN "background" ELSE "text"
    /\ nextItem' = 1
    /\ microtasks' = <<>>
    /\ phase' = "pass"
    /\ lastOp' = [op |-> "StartPass"]
    /\ UNCHANGED <<settings, envVars, el, panelVars>>

\* the forEach runs the callback of the next item up to its first await
VisitItem ==
    /\ phase = "pass"
    /\ nextItem <= Len(fileItems)
    /\ LET r == BeginItem(el, microtasks, fileItems[nextItem])
       IN /\ el' = r.dom
          /\ microtasks' = r.queue
    /\ nextItem' = nextItem + 1
    /\ lastOp' = [op |-> "VisitItem"]
    /\ UNCHANGED <<settings, envVars, phase, cssType, applyPending, panelVars>>

\* the forEach has returned: the microtask queue is drained, head first
ResumeCallback ==
    /\ phase = "pass"
    /\ nextItem > Len(fileItems)
    /\ microtasks # <<>>
    /\ LET r == ResumeItem(el, microtasks)
       IN /\ el' = r.dom
          /\ microtasks' = r.queue
    /\ lastOp' = [op |-> "ResumeCallback"]
    /\ UNCHANGED <<settings, envVars, phase, nextItem, cssType, applyPending, panelVars>>

\* the forEach of a pass in flight goes on to its next item
ItemVisited ==
    /\ phase = "pass"
    /\ nextItem <= Len(fileItems)
    /\ nextItem' = nextItem + 1

\* the armed timer fires, the forEach runs through the items and the microtask
\* queue is drained
PassFairness ==
    WF_vars(StartPass) /\ WF_nextItem(ItemVisited) /\ WF_vars(ResumeCallback)

----------------------------------------------------------------------------
(* The settings a resolution pass is run on *)

MaxGroups == 2

\* the priorities of the groups: equal or different
Priorities == {1, 2}

Color(id, name, value) == [id |-> id, name |-> name, value |-> value]

Palette3 ==
    <<Color("c1", <<"R">>, <<"#", "F", "F", "0", "0", "0", "0">>),
      Color("c2", <<>>, <<"#", "0", "0", "F", "F", "0", "0">>),
      Color("c3", <<"b">>, <<"#", "0", "0", "0", "0", "F", "F">>)>>

RegexCondition(id, pattern, matchFullPath) ==
    [id |-> id, type |-> "regex", pattern |-> pattern, matchFullPath |-> matchFullPath,
     propertyName |-> "", propertyValue |-> <<>>, propertyOperator |-> "equals"]

PropertyCondition(id, name, operator, value) ==
    [id |-> id, type |-> "property", pattern |-> <<>>, matchFullPath |-> FALSE,
     propertyName |-> name, propertyValue |-> value, propertyOperator |-> operator]

\* the file name ends in ".md"
CondMd == RegexCondition("k1", <<"\\", ".", "m", "d", "$">>, FALSE)
\* the full path starts with "X"
CondX == RegexCondition("k2", <<"^", "X">>, TRUE)

\* what a group is made of besides its id, its priority and its enabled flag
Body(conditions, colorId, usePropertyAsColor, propertyNameForColor) ==
    [conditions |-> conditions, colorId |-> colorId,
     usePropertyAsColor |-> usePropertyAsColor,
     propertyNameForColor |-> propertyNameForColor]

GroupBodies ==
    {Body(<<>>, "c1", FALSE, ""),
     Body(<<>>, "c1", TRUE, "bg"),
     Body(<<CondMd>>, "c1", FALSE, ""),
     Body(<<CondX>>, "c2", FALSE, ""),
     Body(<<CondX>>, "c1", TRUE, "bg")}

\* a disabled group is one that would colour every item, at the top priority
DisabledBodies == {Body(<<CondX>>, "c2", FALSE, "")}

Group(id, name, body, enabled, priority) ==
    [id |-> id, name |-> name, colorId |-> body.colorId,
     usePropertyAsColor |-> body.usePropertyAsColor,
     propertyNameForColor |-> body.propertyNameForColor,
     enabled |-> enabled, priority |-> priority, conditions |-> body.conditions]

GroupIds == <<"g1", "g2", "g3", "g4">>
GroupNames == <<<<"a">>, <<"b">>, <<"c">>, <<"d">>>>

\* the group lists of n groups: the one at position i has id GroupIds[i]
RECURSIVE GroupLists(_)
GroupLists(n) ==
    IF n = 0 THEN {<<>>}
    ELSE {Append(gs, Group(GroupIds[n], GroupNames[n], kind[1], kind[2], kind[3])) :
              gs \in GroupLists(n - 1),
              kind \in (GroupBodies \X {TRUE} \X Priorities)
                          \cup (DisabledBodies \X {FALSE} \X {2})}

\* the values of the frontmatter property "bg" of the note
BgValues ==
    {Undefined,
     Str(<<"1", "a", "F", "0", "0", "0">>),
     Str(<<"#", "a", "b", "c">>)}

FileColorLists ==
    {<<>>, <<[path |-> FolderX, color |-> "c3"]>>, <<[path |-> NoteX, color |-> "c3"]>>}

ItemOrders == {<<FolderX, NoteX>>, <<NoteX, FolderX>>, <<NoteX>>}

CleanEl == [classes |-> {}, style |-> <<>>]
ClosedForm == [open |-> FALSE]

\* the state when the layout is ready: the settings are loaded, the items carry
\* no file-color class yet and the first pass is requested
InitWith(notesOptions, lookOptions) ==
    /\ \E n \in 0..MaxGroups : \E gs \in GroupLists(n) :
       \E fc \in FileColorLists : \E notes \in notesOptions : \E look \in lookOptions :
          settings = [cascadeColors |-> look, colorBackground |-> look,
                      folderNotesCompatibility |-> notes,
                      palette |-> Palette3, fileColors |-> fc, groups |-> gs]
    /\ \E bg \in BgValues :
          frontmatter = [p \in VaultPaths |->
                            IF p = NoteX
                            THEN Frontmatter([n \in {"bg"} \ (IF bg = Undefined THEN {"bg"} ELSE {})
                                                 |-> bg])
                            ELSE NoFrontmatter]
    /\ fileItems \in ItemOrders
    /\ el = [p \in Range(fileItems) |-> CleanEl]
    /\ phase = "idle"
    /\ nextItem = 1
    /\ microtasks = <<>>
    /\ cssType = "text"
    /\ palette = settings.palette
    /\ groups = settings.groups
    /\ colorErrorQueue = <<>>
    /\ disk = settings
    /\ savePending = FALSE
    /\ applyPending = TRUE
    /\ form = ClosedForm
    /\ minted = 0
    /\ lastOp = [op |-> "Init"]

Next == StartPass \/ VisitItem \/ ResumeCallback

\* text colour without cascade, folder-notes compatibility off or on
Init == InitWith(BOOLEAN, {FALSE})

Spec == Init /\ [][Next]_vars

\* folder-notes compatibility on, with either look of the coloured items
InitNotes == InitWith({TRUE}, BOOLEAN)

SpecNotes == InitNotes /\ [][Next]_vars

----------------------------------------------------------------------------
(* The colour a group takes from a property, on every short string *)

MaxHexLen == 7

HexAlphabet == {"#", "a", "g", " "}

\* the strings over HexAlphabet of length n
RECURSIVE StringsOfLen(_)
StringsOfLen(n) ==
    IF n = 0 THEN {<<>>}
    ELSE {Append(str, c) : str \in StringsOfLen(n - 1), c \in HexAlphabet}

PropertyColorGroup ==
    Group("g1", <<"a">>, Body(<<CondX>>, "c1", TRUE, "bg"), TRUE, 1)

InitHex ==
    /\ settings = [cascadeColors |-> FALSE, colorBackground |-> FALSE,
                   folderNotesCompatibility |-> FALSE,
                   palette |-> Palette3, fileColors |-> <<>>,
                   groups |-> <<PropertyColorGroup>>]
    /\ \E n \in 0..MaxHexLen : \E str \in StringsOfLen(n) :
          frontmatter = [p \in VaultPaths |->
                            IF p = NoteX THEN Frontmatter([name \in {"bg"} |-> Str(str)])
                            ELSE NoFrontmatter]
    /\ fileItems = <<NoteX>>
    /\ el = [p \in Range(fileItems) |-> CleanEl]
    /\ phase = "idle"
    /\ nextItem = 1
    /\ microtasks = <<>>
    /\ cssType = "text"
    /\ palette = settings.palette
    /\ groups = settings.groups
    /\ colorErrorQueue = <<>>
    /\ disk = settings
    /\ savePending = FALSE
    /\ applyPending = TRUE
    /\ form = ClosedForm
    /\ minted = 0
    /\ lastOp = [op |-> "Init"]

SpecHex == InitHex /\ [][Next]_vars

----------------------------------------------------------------------------
(* SettingsPanel: the palette *)

Null == [t |-> "null", v |-> <<>>]

\* hex.split('').map(c => c + c).join('')
RECURSIVE DoubleChars(_)
DoubleChars(s) ==
    IF s = <<>> THEN <<>> ELSE <<Head(s), Head(s)>> \o DoubleChars(Tail(s))

ValidateAndNormalizeHex(hexValue) ==
    LET trimmed == Trim(hexValue)
        hex == IF StartsWith(trimmed, <<"#">>) THEN SubstringFrom(trimmed, 1) ELSE trimmed
    IN IF Len(hex) = 6 /\ AllHex(hex) THEN Str(<<"#">> \o ToUpperCase(hex))
       ELSE IF Len(hex) = 3 /\ AllHex(hex)
            THEN Str(<<"#">> \o ToUpperCase(DoubleChars(hex)))
            ELSE Null

\* /^#[0-9A-Fa-f]{6}$/.test(hex)
PaletteHexPattern(hex) == Len(hex) = 7 /\ hex[1] = "#" /\ AllHex(Tail(hex))

\* an entry of the error list: the colours it is about, its kind, its message
Message(text, arg, count) == [text |-> text, arg |-> arg, count |-> count]
ColorError(colorIds, errorType, message) ==
    [colorIds |-> colorIds, errorType |-> errorType, message |-> message]

\* Validación 1: one error for each colour whose trimmed value is not a hex
RECURSIVE InvalidHexErrors(_)
InvalidHexErrors(p) ==
    IF p = <<>> THEN <<>>
    ELSE LET hex == Trim(Head(p).value)
         IN (IF ~PaletteHexPattern(hex)
             THEN <<ColorError(<<Head(p).id>>, "invalid-hex",
                               Message("Invalid hex color: ", hex, 1))>>
             ELSE <<>>)
            \o InvalidHexErrors(Tail(p))

\* a key that takes the name as it is typed
NameKeyExact(color) == color.name

\* color.name.trim().toLowerCase()
NameKey(color) == ToLowerCase(Trim(color.name))

\* Object.entries(nameToColors): the non-empty keys in the order of their first
\* colour (no key of the names used here is an integer index)
RECURSIVE NameKeys(_, _)
NameKeys(p, seen) ==
    IF p = <<>> THEN <<>>
    ELSE LET name == NameKey(Head(p))
         IN IF name = <<>> \/ name \in seen
            THEN NameKeys(Tail(p), seen)
            ELSE <<name>> \o NameKeys(Tail(p), seen \cup {name})

\* nameToColors[name]
ColorsNamed(p, name) == SelectSeq(p, LAMBDA color : NameKey(color) = name)

Ids(seq) == [i \in 1..Len(seq) |-> seq[i].id]

\* Validación 2: one error for each name that several colours carry
RECURSIVE DuplicateNameErrors(_, _)
DuplicateNameErrors(p, names) ==
    IF names = <<>> THEN <<>>
    ELSE LET colors == ColorsNamed(p, Head(names))
         IN (IF Len(colors) > 1
             THEN <<ColorError(Ids(colors), "duplicate-name",
                               Message("Duplicate color name", Trim(colors[1].name),
                                       Len(colors)))>>
             ELSE <<>>)
            \o DuplicateNameErrors(p, Tail(names))

\* a validation that stops at the first problem it finds
PaletteErrorsFirstOnly(p) ==
    LET all == InvalidHexErrors(p) \o DuplicateNameErrors(p, NameKeys(p, {}))
    IN IF all = <<>> THEN <<>> ELSE <<Head(all)>>

\* the errors array of onSave
PaletteErrors(p) == InvalidHexErrors(p) \o DuplicateNameErrors(p, NameKeys(p, {}))

\* a save that goes through when there is a single error
SaveRejectedOnSeveral(errors) == Len(errors) > 1

\* if (errors.length > 0)
SaveRejected(errors) == Len(errors) > 0

InSeq(x, seq) == \E i \in 1..Len(seq) : seq[i] = x

\* the ids nanoid() hands out, in order
NanoIds == <<"n1", "n2">>

\* the settings tab takes input: no pass is in flight and no modal covers it
PanelReady == NoPassInFlight /\ ~form.open

\* the changed flag, as the effect on [plugin, palette] computes it: the Save
\* and Revert buttons are rendered only while it is set
Changed ==
    IF Len(palette) # Len(settings.palette) THEN TRUE
    ELSE \E i \in 1..Len(palette) :
            LET same == SelectSeq(settings.palette,
                                  LAMBDA settingsColor : settingsColor.id = palette[i].id)
            IN IF same = <<>> THEN TRUE
               ELSE IF same[1].name # palette[i].name THEN TRUE
               ELSE same[1].value # palette[i].value

\* a save that leaves the manual colours as they are
KeptFileColorsAll(fileColors, p) == fileColors

\* the manual colours whose colour is still in the palette
KeptFileColors(fileColors, p) ==
    SelectSeq(fileColors, LAMBDA fileColor : InSeq(fileColor.color, Ids(p)))

OnSave ==
    /\ PanelReady
    /\ Changed
    /\ LET errors == PaletteErrors(palette)
       IN IF SaveRejected(errors)
          THEN /\ colorErrorQueue' = errors
               /\ UNCHANGED <<settings, savePending, applyPending>>
          ELSE /\ colorErrorQueue' = <<>>
               /\ settings' = [settings EXCEPT
                                  !.palette = palette,
                                  !.fileColors = KeptFileColors(@, palette)]
               /\ savePending' = TRUE
               /\ applyPending' = TRUE
    /\ lastOp' = [op |-> "OnSave"]
    /\ UNCHANGED <<envVars, passVars, palette, groups, disk, form, minted>>

OnRevert ==
    /\ PanelReady
    /\ Changed
    /\ palette' = settings.palette
    /\ lastOp' = [op |-> "OnRevert"]
    /\ UNCHANGED <<settings, envVars, passVars, groups, colorErrorQueue, disk,
                   savePending, applyPending, form, minted>>

\* the timer of the debounced saveSettingsInternal fires
SaveTimer ==
    /\ savePending
    /\ NoPassInFlight
    /\ disk' = settings
    /\ savePending' = FALSE
    /\ lastOp' = [op |-> "SaveTimer"]
    /\ UNCHANGED <<settings, envVars, passVars, palette, groups, colorErrorQueue,
                   applyPending, form, minted>>

----------------------------------------------------------------------------
(* SettingsPanel: the groups, and the group edit form of ConfigureRuleModal *)

\* the priority of the preview group
PreviewPriority == 9999

\* the priorities the reorder buttons are followed to
MaxPriority == 3
MinPriority == 0

\* the error line of the form: a message and the text quoted in it
FormError(text, arg) == [text |-> text, arg |-> arg]
NoError == FormError("", <<>>)

\* validateCondition: the error it sets, none when it returns true
ValidateCondition(condition) ==
    IF condition.type = "regex"
    THEN IF condition.pattern = <<>>
         THEN FormError("Regex pattern is required", <<>>)
         ELSE IF ~RegExpCompiles(condition.pattern)
              THEN FormError("Invalid regex pattern: ", condition.pattern)
              ELSE NoError
    ELSE IF condition.type = "property"
         THEN IF condition.propertyName = ""
              THEN FormError("Property name is required", <<>>)
              ELSE IF condition.propertyOperator # "exists" /\ condition.propertyValue = <<>>
                   THEN FormError("Property value is required", <<>>)
                   ELSE NoError
         ELSE NoError

\* for (const condition of conditions) if (!validateCondition(condition)) return
RECURSIVE FirstConditionError(_)
FirstConditionError(conditions) ==
    IF conditions = <<>> THEN NoError
    ELSE IF ValidateCondition(Head(conditions)) # NoError
         THEN ValidateCondition(Head(conditions))
         ELSE FirstConditionError(Tail(conditions))

\* a search that compares the names as they are written
DuplicateGroupExact(f, currentGroups) ==
    \E i \in 1..Len(currentGroups) :
        /\ currentGroups[i].id # f.group.id
        /\ currentGroups[i].name = f.name

\* existingGroups.find(...): another group carries the name of the form
DuplicateGroup(f, currentGroups) ==
    \E i \in 1..Len(currentGroups) :
        /\ currentGroups[i].id # f.group.id
        /\ currentGroups[i].name # <<>>
        /\ Trim(ToLowerCase(currentGroups[i].name)) = Trim(ToLowerCase(f.name))

\* a validation that looks at the conditions before it looks at the name
HandleSaveFailureConditionsFirst(f, currentGroups) ==
    IF FirstConditionError(f.conditions) # NoError
    THEN FirstConditionError(f.conditions)
    ELSE IF Trim(f.name) = <<>>
    THEN FormError("Group name is required", <<>>)
    ELSE IF DuplicateGroup(f, currentGroups)
    THEN FormError("A group with the name already exists", Trim(f.name))
    ELSE IF f.usePropertyAsColor /\ f.propertyNameForColor = ""
    THEN FormError("Property name for color is required", <<>>)
    ELSE NoError

\* the checks of handleSave, in their order: the error of the first that fails
HandleSaveFailure(f, currentGroups) ==
    IF Trim(f.name) = <<>>
    THEN FormError("Group name is required", <<>>)
    ELSE IF DuplicateGroup(f, currentGroups)
    THEN FormError("A group with the name already exists", Trim(f.name))
    ELSE IF FirstConditionError(f.conditions) # NoError
    THEN FirstConditionError(f.conditions)
    ELSE IF f.usePropertyAsColor /\ f.propertyNameForColor = ""
    THEN FormError("Property name for color is required", <<>>)
    ELSE NoError

\* handleSave returns before onSave(savedGroup)
GroupSaveRejected(failure) == failure # NoError

\* the state of ConfigureRuleContent when it is mounted on a group
OpenForm(group, isNewGroup, originalGroups) ==
    [open |-> TRUE, group |-> group, isNewGroup |-> isNewGroup,
     originalGroups |-> originalGroups,
     name |-> group.name, colorId |-> group.colorId,
     usePropertyAsColor |-> group.usePropertyAsColor,
     propertyNameForColor |-> group.propertyNameForColor,
     conditions |-> group.conditions, error |-> NoError]

\* the fields of the form laid over the group it edits
FormGroup(f) ==
    [f.group EXCEPT !.name = f.name, !.colorId = f.colorId,
                    !.usePropertyAsColor = f.usePropertyAsColor,
                    !.propertyNameForColor = f.propertyNameForColor,
                    !.conditions = f.conditions]

PreviewGroup(f) == [FormGroup(f) EXCEPT !.enabled = TRUE, !.priority = PreviewPriority]

\* plugin.settings.groups while the preview effect of the form is in place
PreviewGroups(f) ==
    <<PreviewGroup(f)>> \o SelectSeq(f.originalGroups, LAMBDA g : g.id # f.group.id)

\* savedGroup
SavedGroup(f) == [FormGroup(f) EXCEPT !.name = Trim(f.name)]

\* updatedGroups of the save callback of onConfigureGroup
UpdatedGroups(gs, f) ==
    IF f.isNewGroup THEN Append(gs, SavedGroup(f))
    ELSE [i \in 1..Len(gs) |-> IF gs[i].id = f.group.id THEN SavedGroup(f) ELSE gs[i]]

NewGroupName == <<"N", "e", "w", " ", "G", "r", "o", "u", "p">>

\* Math.min(...groups.map(g => g.priority))
MinPriorityOf(gs) ==
    CHOOSE p \in {gs[i].priority : i \in 1..Len(gs)} :
        \A i \in 1..Len(gs) : p <= gs[i].priority

\* newGroup of onAddGroup
NewGroup(id) ==
    [id |-> id, name |-> NewGroupName,
     colorId |-> IF Len(palette) > 0 THEN palette[1].id ELSE "",
     usePropertyAsColor |-> FALSE, propertyNameForColor |-> "",
     enabled |-> TRUE,
     priority |-> IF Len(groups) > 0 THEN MinPriorityOf(groups) - 1 ELSE 0,
     conditions |-> <<>>]

\* modal.open(): the form is mounted and its effect puts the preview in place
ModalOpen(group, isNewGroup) ==
    /\ form' = OpenForm(group, isNewGroup, settings.groups)
    /\ settings' = [settings EXCEPT
                       !.groups = PreviewGroups(OpenForm(group, isNewGroup, settings.groups))]
    /\ applyPending' = TRUE

OnAddGroup ==
    /\ PanelReady
    /\ minted < Len(NanoIds)
    /\ NewGroup(NanoIds[minted + 1]).priority >= MinPriority
    /\ ModalOpen(NewGroup(NanoIds[minted + 1]), TRUE)
    /\ minted' = minted + 1
    /\ lastOp' = [op |-> "OnAddGroup"]
    /\ UNCHANGED <<envVars, passVars, palette, groups, colorErrorQueue, disk, savePending>>

OnConfigureGroup ==
    /\ PanelReady
    /\ \E k \in 1..Len(groups) : ModalOpen(groups[k], FALSE)
    /\ lastOp' = [op |-> "OnConfigureGroup"]
    /\ UNCHANGED <<envVars, passVars, palette, groups, colorErrorQueue, disk,
                   savePending, minted>>

\* the Save button of the form: handleSave, and when the checks pass the save
\* callback of onConfigureGroup, then modal.close() with the cleanup of the
\* preview effect
HandleSave ==
    /\ form.open
    /\ NoPassInFlight
    /\ IF GroupSaveRejected(HandleSaveFailure(form, groups))
       THEN /\ form' = [form EXCEPT !.error = HandleSaveFailure(form, groups)]
            /\ UNCHANGED <<settings, groups, disk, applyPending>>
       ELSE /\ groups' = UpdatedGroups(groups, form)
            /\ disk' = [settings EXCEPT !.groups = UpdatedGroups(groups, form)]
            /\ settings' = [settings EXCEPT !.groups = form.originalGroups]
            /\ applyPending' = TRUE
            /\ form' = ClosedForm
    /\ lastOp' = [op |-> "HandleSave"]
    /\ UNCHANGED <<envVars, passVars, palette, colorErrorQueue, savePending, minted>>

\* the Cancel button: modal.close() with the cleanup of the preview effect
OnCancel ==
    /\ form.open
    /\ NoPassInFlight
    /\ settings' = [settings EXCEPT !.groups = form.originalGroups]
    /\ applyPending' = TRUE
    /\ form' = ClosedForm
    /\ lastOp' = [op |-> "OnCancel"]
    /\ UNCHANGED <<envVars, passVars, palette, groups, colorErrorQueue, disk,
                   savePending, minted>>

\* a commit that does not ask for a pass
CommitGroupsQuietly(updatedGroups) ==
    /\ groups' = updatedGroups
    /\ settings' = [settings EXCEPT !.groups = updatedGroups]
    /\ disk' = [settings EXCEPT !.groups = updatedGroups]
    /\ applyPending' = applyPending

\* setGroups(updatedGroups); plugin.settings.groups = updatedGroups;
\* plugin.saveSettings(true); plugin.applyColorStyles()
CommitGroups(updatedGroups) ==
    /\ groups' = updatedGroups
    /\ settings' = [settings EXCEPT !.groups = updatedGroups]
    /\ disk' = [settings EXCEPT !.groups = updatedGroups]
    /\ applyPending' = TRUE

OnRemoveGroup ==
    /\ PanelReady
    /\ \E k \in 1..Len(groups) :
          CommitGroups(SelectSeq(groups, LAMBDA group : group.id # groups[k].id))
    /\ lastOp' = [op |-> "OnRemoveGroup"]
    /\ UNCHANGED <<envVars, passVars, palette, colorErrorQueue, savePending, form, minted>>

OnGroupToggle ==
    /\ PanelReady
    /\ \E k \in 1..Len(groups) :
          CommitGroups([i \in 1..Len(groups) |->
                           IF groups[i].id = groups[k].id
                           THEN [groups[i] EXCEPT !.enabled = ~@]
                           ELSE groups[i]])
    /\ lastOp' = [op |-> "OnGroupToggle"]
    /\ UNCHANGED <<envVars, passVars, palette, colorErrorQueue, savePending, form, minted>>

\* sortedGroups.findIndex(g => g.id === groupId), 1-based
FindIndex(sortedGroups, groupId) ==
    CHOOSE i \in 1..Len(sortedGroups) :
        sortedGroups[i].id = groupId /\ \A j \in 1..(i - 1) : sortedGroups[j].id # groupId

\* a move that takes the priority of the neighbour as it is
TakenPriority(neighbourPriority) == neighbourPriority

\* higherPriority + 1
RaisedPriority(higherPriority) == higherPriority + 1

\* lowerPriority - 1
LoweredPriority(lowerPriority) == lowerPriority - 1

\* groups.map(...) of the two reorder handlers
Reprioritised(gs, groupId, newPriority, neighbourId, currentPriority) ==
    [i \in 1..Len(gs) |->
        IF gs[i].id = groupId THEN [gs[i] EXCEPT !.priority = newPriority]
        ELSE IF gs[i].id = neighbourId THEN [gs[i] EXCEPT !.priority = currentPriority]
        ELSE gs[i]]

OnGroupMoveUp ==
    /\ PanelReady
    /\ \E k \in 1..Len(groups) :
          LET groupId == groups[k].id
              sortedGroups == SortByPriority(groups)
              index == FindIndex(sortedGroups, groupId)
          IN /\ index > 1
             /\ RaisedPriority(sortedGroups[index - 1].priority) <= MaxPriority
             /\ CommitGroups(Reprioritised(groups, groupId,
                                           RaisedPriority(sortedGroups[index - 1].priority),
                                           sortedGroups[index - 1].id,
                                           sortedGroups[index].priority))
             /\ lastOp' = [op |-> "OnGroupMoveUp", groupId |-> groupId]
    /\ UNCHANGED <<envVars, passVars, palette, colorErrorQueue, savePending, form, minted>>

OnGroupMoveDown ==
    /\ PanelReady
    /\ \E k \in 1..Len(groups) :
          LET groupId == groups[k].id
              sortedGroups == SortByPriority(groups)
              index == FindIndex(sortedGroups, groupId)
          IN /\ index < Len(sortedGroups)
             /\ LoweredPriority(sortedGroups[index + 1].priority) >= MinPriority
             /\ CommitGroups(Reprioritised(groups, groupId,
                                           LoweredPriority(sortedGroups[index + 1].priority),
                                           sortedGroups[index + 1].id,
                                           sortedGroups[index].priority))
             /\ lastOp' = [op |-> "OnGroupMoveDown", groupId |-> groupId]
    /\ UNCHANGED <<envVars, passVars, palette, colorErrorQueue, savePending, form, minted>>

----------------------------------------------------------------------------
(* The settings tab at work: what was loaded, what has been typed *)

\* a palette as loaded from the data file, which the plugin does not validate:
\* two values that are no hex, a value padded with a blank, a name used twice
PaletteLoaded ==
    <<Color("c1", <<"R">>, <<"#", "a", "b", "c">>),
      Color("c2", <<"r", " ">>, <<" ", "#", "0", "0", "F", "F", "0", "0">>),
      Color("c3", <<"b">>, <<"#", "0", "0", "0", "0", "F", "G">>)>>

LoadedPalettes == {Palette3, PaletteLoaded}

\* the values of the colour picker
PickerValues == {<<"#", "0", "0", "0", "0", "0", "0">>}

\* what is typed in the hex field
HexInputs == {<<" ", "0", "0", "0">>, <<"g">>}

\* what is typed in the name field of a colour
ColorNameInputs == {<<"r", " ">>}

\* the values onColorValueChange is called with: the picker's, and those
\* onColorHexInputChange lets through
ChangedValues ==
    PickerValues \cup {ValidateAndNormalizeHex(hexValue).v :
                          hexValue \in {h \in HexInputs : ValidateAndNormalizeHex(h) # Null}}

\* what onColorNameChange and onColorValueChange make of a colour
ChangedColors(color) ==
    {[color EXCEPT !.name = name, !.value = value] :
        name \in {color.name} \cup ColorNameInputs,
        value \in {color.value} \cup ChangedValues}

\* what onRemoveColor, onColorNameChange and onColorValueChange make of a palette
RECURSIVE EditedPalettes(_)
EditedPalettes(p) ==
    IF p = <<>> THEN {<<>>}
    ELSE {first \o rest :
             first \in {<<>>} \cup {<<color>> : color \in ChangedColors(Head(p))},
             rest \in EditedPalettes(Tail(p))}

\* the colour onAddColor appends
AddedColor(id) == Color(id, <<>>, <<"#", "f", "f", "f", "f", "f", "f">>)

\* a session on the palette: the loaded palette, edited, with at most one colour
\* added; one group, which kept the name it was created with
GroupCreated ==
    Group("g1", NewGroupName, Body(<<CondMd>>, "c1", FALSE, ""), TRUE, 1)

PaletteSessions ==
    UNION {{[loaded |-> p, palette |-> edited \o added, groups |-> <<GroupCreated>>,
             form |-> ClosedForm, minted |-> Len(added)] :
               edited \in EditedPalettes(p),
               added \in {<<>>} \cup {<<color>> : color \in ChangedColors(AddedColor(NanoIds[1]))}} :
           p \in LoadedPalettes}

GroupBody == Body(<<CondMd>>, "c1", FALSE, "")

\* the group lists of n groups with every choice of priorities
RECURSIVE LoadedGroupLists(_)
LoadedGroupLists(n) ==
    IF n = 0 THEN {<<>>}
    ELSE {Append(gs, Group(GroupIds[n], GroupNames[n], GroupBody, TRUE, priority)) :
              gs \in LoadedGroupLists(n - 1), priority \in 1..MaxPriority}

\* a session on the group list
GroupSessions ==
    {[loaded |-> Palette3, palette |-> Palette3, groups |-> gs,
      form |-> ClosedForm, minted |-> 0] :
        gs \in UNION {LoadedGroupLists(n) : n \in 0..2}}

\* the conditions a form can hold: as onAddCondition makes them, and after
\* onUpdateCondition
ConditionShapes(id) ==
    {RegexCondition(id, <<>>, FALSE),
     RegexCondition(id, <<"(">>, FALSE),
     RegexCondition(id, <<"^", "X">>, TRUE),
     PropertyCondition(id, "", "equals", <<>>),
     PropertyCondition(id, "bg", "equals", <<>>),
     PropertyCondition(id, "bg", "exists", <<>>),
     PropertyCondition(id, "bg", "equals", <<"1">>)}

ConditionLists ==
    {<<>>} \cup {<<c>> : c \in ConditionShapes("k1")}
           \cup {<<c, d>> : c \in ConditionShapes("k2"), d \in ConditionShapes("k1")}

\* what is typed in the name field of the form
GroupNameInputs == {<<" ">>, <<"B", " ">>, <<"a">>, <<"n">>}

TwoGroups ==
    <<Group("g1", <<"a">>, GroupBody, TRUE, 2), Group("g2", <<"b">>, GroupBody, FALSE, 1)>>

\* a form on a group of the list or on a new group, with its fields filled in
FilledForms ==
    {[OpenForm(opened.group, opened.isNewGroup, TwoGroups) EXCEPT
         !.name = name, !.conditions = conditions,
         !.usePropertyAsColor = color[1], !.propertyNameForColor = color[2]] :
        opened \in {[group |-> TwoGroups[1], isNewGroup |-> FALSE],
                    [group |-> [id |-> NanoIds[1], name |-> NewGroupName, colorId |-> "c1",
                                usePropertyAsColor |-> FALSE, propertyNameForColor |-> "",
                                enabled |-> TRUE, priority |-> 0, conditions |-> <<>>],
                     isNewGroup |-> TRUE]},
        name \in GroupNameInputs,
        conditions \in ConditionLists,
        color \in {<<FALSE, "">>, <<TRUE, "">>, <<TRUE, "bg">>}}

\* a session in the edit form
FormSessions ==
    {[loaded |-> Palette3, palette |-> Palette3, groups |-> TwoGroups,
      form |-> f, minted |-> IF f.isNewGroup THEN 1 ELSE 0] : f \in FilledForms}

\* the sessions with little typed: colours were removed and nothing else, the
\* form holds no condition
StoreSessions ==
    {s \in PaletteSessions :
        \A i \in 1..Len(s.palette) : InSeq(s.palette[i], s.loaded)}
    \cup GroupSessions
    \cup {s \in FormSessions : s.form.conditions = <<>>}

\* the settings tab in the middle of a session
InitSessions(sessions) ==
    /\ \E session \in sessions :
          /\ settings = [cascadeColors |-> FALSE, colorBackground |-> FALSE,
                         folderNotesCompatibility |-> FALSE,
                         palette |-> session.loaded,
                         fileColors |-> <<[path |-> NoteX, color |-> "c2"],
                                          [path |-> FolderX, color |-> "c3"]>>,
                         groups |-> IF session.form.open
                                    THEN PreviewGroups(session.form)
                                    ELSE session.groups]
          /\ palette = session.palette
          /\ groups = session.groups
          /\ disk = [settings EXCEPT !.groups = session.groups]
          /\ form = session.form
          /\ minted = session.minted
    /\ frontmatter = [p \in VaultPaths |-> NoFrontmatter]
    /\ fileItems = <<FolderX, NoteX>>
    /\ el = [p \in Range(fileItems) |-> CleanEl]
    /\ phase = "idle"
    /\ nextItem = 1
    /\ microtasks = <<>>
    /\ cssType = "text"
    /\ colorErrorQueue = <<>>
    /\ savePending = FALSE
    /\ applyPending = TRUE
    /\ lastOp = [op |-> "Init"]

\* the palette editor on every palette that can be typed
NextPalette == OnSave \/ OnRevert \/ SaveTimer

InitPalette == InitSessions(PaletteSessions)

SpecPalette == InitPalette /\ [][NextPalette]_vars

\* the palette editor on a palette that it has saved
InitEdits == InitSessions({session \in PaletteSessions : session.loaded = Palette3})

SpecEdits == InitEdits /\ [][NextPalette]_vars

\* the edit form on every form that can be filled in
NextForm == HandleSave \/ OnCancel

InitForm == InitSessions(FormSessions)

SpecForm == InitForm /\ [][NextForm]_vars

\* the group list and the edit form, on the group lists and on the forms with
\* a name typed
NextGroups ==
    \/ OnAddGroup \/ OnConfigureGroup \/ HandleSave \/ OnCancel
    \/ OnRemoveGroup \/ OnGroupToggle \/ OnGroupMoveUp \/ OnGroupMoveDown

InitGroups ==
    InitSessions(GroupSessions
                    \cup {session \in FormSessions : session.form.conditions = <<>>})

SpecGroups == InitGroups /\ [][NextGroups]_vars

\* the settings tab, palette and groups, on the sessions with little typed
NextStore ==
    \/ OnSave \/ OnRevert \/ SaveTimer
    \/ OnAddGroup \/ OnConfigureGroup \/ HandleSave \/ OnCancel
    \/ OnRemoveGroup \/ OnGroupToggle \/ OnGroupMoveUp \/ OnGroupMoveDown

InitStore == InitSessions(StoreSessions)

SpecStore == InitStore /\ [][NextStore]_vars


----------------------------------------------------------------------------
(* A pass on one group of several conditions, over notes of every metadata *)

MaxConditions == 2

\* a pattern that does not compile
CondBad == RegexCondition("k3", <<"(">>, FALSE)

\* the target values of the contains conditions on the property "tags"
ContainsTargets == {<<"a">>, <<"a", ",", "b">>}

ConditionPool ==
    {CondMd, CondX, CondBad}
        \cup {PropertyCondition("k4", "tags", "contains", target) : target \in ContainsTargets}

\* the condition lists of length n over the pool
RECURSIVE ConditionSeqs(_)
ConditionSeqs(n) ==
    IF n = 0 THEN {<<>>}
    ELSE {Append(conditions, c) : conditions \in ConditionSeqs(n - 1), c \in ConditionPool}

\* the values of the property "tags": a scalar, a list
TagsValues ==
    {Str(<<"x", "a", "b">>),
     Str(<<"a">>),
     Arr(<<<<"a">>, <<"b">>>>),
     Arr(<<<<"a", "b">>, <<"c">>>>)}

\* what the metadata cache holds for the note: nothing, a frontmatter without
\* the property, a frontmatter with it
NoteMetadata ==
    {NoFrontmatter, Frontmatter([n \in {} |-> Undefined])}
        \cup {Frontmatter([n \in {"tags"} |-> value]) : value \in TagsValues}

\* a group that colours every item, below the group under test
FallbackGroup == Group("g2", <<"b">>, Body(<<CondX>>, "c2", FALSE, ""), TRUE, 1)

InitMatch ==
    /\ \E n \in 1..MaxConditions : \E conditions \in ConditionSeqs(n) :
       \E rest \in {<<>>, <<FallbackGroup>>} :
          settings = [cascadeColors |-> FALSE, colorBackground |-> FALSE,
                      folderNotesCompatibility |-> FALSE,
                      palette |-> Palette3, fileColors |-> <<>>,
                      groups |-> <<Group("g1", <<"a">>, Body(conditions, "c1", FALSE, ""),
                                         TRUE, 2)>> \o rest]
    /\ \E metadata \in NoteMetadata :
          frontmatter = [p \in VaultPaths |-> IF p = NoteX THEN metadata ELSE NoFrontmatter]
    /\ fileItems = <<FolderX, NoteX, TextX>>
    /\ el = [p \in Range(fileItems) |-> CleanEl]
    /\ phase = "idle"
    /\ nextItem = 1
    /\ microtasks = <<>>
    /\ cssType = "text"
    /\ palette = settings.palette
    /\ groups = settings.groups
    /\ colorErrorQueue = <<>>
    /\ disk = settings
    /\ savePending = FALSE
    /\ applyPending = TRUE
    /\ form = ClosedForm
    /\ minted = 0
    /\ lastOp = [op |-> "Init"]

SpecMatch == InitMatch /\ [][Next]_vars

\* the timer of the requested pass fires and the callbacks of a pass are run
SpecMatchLive == SpecMatch /\ PassFairness

----------------------------------------------------------------------------
(* The settings tab and the resolution pass together *)

\* two groups of different colours: the first colours the notes, the second,
\* below it, every item under X
LiveGroups ==
    <<Group("g1", <<"a">>, Body(<<CondMd>>, "c1", FALSE, ""), TRUE, 2),
      Group("g2", <<"b">>, Body(<<CondX>>, "c2", FALSE, ""), TRUE, 1)>>

\* the edit form on the first group, renamed and given another colour, and on
\* a new group that has been given a name and a condition
LiveForms ==
    {[OpenForm(LiveGroups[1], FALSE, LiveGroups) EXCEPT
         !.name = <<"n">>, !.colorId = "c3"],
     [OpenForm([id |-> NanoIds[1], name |-> NewGroupName, colorId |-> "c1",
                usePropertyAsColor |-> FALSE, propertyNameForColor |-> "",
                enabled |-> TRUE, priority |-> 0, conditions |-> <<>>],
               TRUE, LiveGroups) EXCEPT
         !.name = <<"n">>, !.colorId = "c3", !.conditions = <<CondX>>]}

InitLive ==
    /\ \E f \in {ClosedForm} \cup LiveForms :
          /\ form = f
          /\ settings = [cascadeColors |-> FALSE, colorBackground |-> FALSE,
                         folderNotesCompatibility |-> FALSE,
                         palette |-> Palette3, fileColors |-> <<>>,
                         groups |-> IF f.open THEN PreviewGroups(f) ELSE LiveGroups]
          /\ minted = IF f.open /\ f.isNewGroup THEN 1 ELSE 0
    /\ palette = Palette3
    /\ groups = LiveGroups
    /\ disk = [settings EXCEPT !.groups = LiveGroups]
    /\ frontmatter = [p \in VaultPaths |-> NoFrontmatter]
    /\ fileItems = <<FolderX, NoteX>>
    /\ el = [p \in Range(fileItems) |-> CleanEl]
    /\ phase = "idle"
    /\ nextItem = 1
    /\ microtasks = <<>>
    /\ cssType = "text"
    /\ colorErrorQueue = <<>>
    /\ savePending = FALSE
    /\ applyPending = TRUE
    /\ lastOp = [op |-> "Init"]

NextLive ==
    \/ StartPass \/ VisitItem \/ ResumeCallback
    \/ OnConfigureGroup \/ HandleSave \/ OnCancel
    \/ OnRemoveGroup \/ OnGroupToggle

SpecLive == InitLive /\ [][NextLive]_vars /\ PassFairness
----------------------------------------------------------------------------
(* The vault events: an item is renamed, an item is deleted *)

FolderY == <<"Y">>
\* a note next to the folder X whose name starts with the folder's
SiblingX == <<"X", "b", ".", "m", "d">>

\* the paths the vault reports
EventPaths == {FolderX, NoteX, SiblingX, FolderY}

\* a rename that takes along every entry whose path starts with the old path
RenamedFileColorsByPrefix(fileColors, oldPath, newPath) ==
    [i \in 1..Len(fileColors) |->
        IF StartsWith(fileColors[i].path, oldPath)
        THEN [fileColors[i] EXCEPT !.path = newPath]
        ELSE fileColors[i]]

\* fileColors.filter(fileColor => fileColor.path === oldPath)
\*     .forEach(fileColor => { fileColor.path = newFile.path })
RenamedFileColors(fileColors, oldPath, newPath) ==
    [i \in 1..Len(fileColors) |->
        IF fileColors[i].path = oldPath
        THEN [fileColors[i] EXCEPT !.path = newPath]
        ELSE fileColors[i]]

\* fileColors.filter(fileColor => !fileColor.path.startsWith(file.path))
RemainingFileColors(fileColors, path) ==
    SelectSeq(fileColors, LAMBDA fileColor : ~StartsWith(fileColor.path, path))

\* this.app.vault.on('rename', ...): the entries of the old path are moved,
\* the debounced save and the debounced pass are armed
OnRename ==
    /\ NoPassInFlight
    /\ \E oldPath \in EventPaths : \E newPath \in EventPaths \ {oldPath} :
          /\ settings' = [settings EXCEPT
                             !.fileColors = RenamedFileColors(@, oldPath, newPath)]
          /\ lastOp' = [op |-> "OnRename", oldPath |-> oldPath, newPath |-> newPath]
    /\ savePending' = TRUE
    /\ applyPending' = TRUE
    /\ UNCHANGED <<envVars, passVars, palette, groups, colorErrorQueue, disk, form, minted>>

\* this.app.vault.on('delete', ...): entries are dropped and the debounced
\* save is armed
OnDelete ==
    /\ NoPassInFlight
    /\ \E path \in EventPaths :
          /\ settings' = [settings EXCEPT !.fileColors = RemainingFileColors(@, path)]
          /\ lastOp' = [op |-> "OnDelete", path |-> path]
    /\ savePending' = TRUE
    /\ UNCHANGED <<envVars, passVars, palette, groups, colorErrorQueue, disk,
                   applyPending, form, minted>>

\* the manual colours when the plugin is loaded: none, or those of the folder,
\* of its note and of the note next to it
StoredFileColors ==
    {<<>>,
     <<[path |-> FolderX, color |-> "c1"], [path |-> NoteX, color |-> "c2"],
       [path |-> SiblingX, color |-> "c3"]>>}

\* the plugin at work on the given manual colours, the settings tab open on
\* two groups
InitOn(fileColorLists) ==
    /\ \E fc \in fileColorLists :
          settings = [cascadeColors |-> FALSE, colorBackground |-> FALSE,
                      folderNotesCompatibility |-> FALSE,
                      palette |-> Palette3, fileColors |-> fc, groups |-> LiveGroups]
    /\ palette = Palette3
    /\ groups = LiveGroups
    /\ disk = settings
    /\ form = ClosedForm
    /\ minted = 0
    /\ frontmatter = [p \in VaultPaths |-> NoFrontmatter]
    /\ fileItems = <<FolderX, NoteX>>
    /\ el = [p \in Range(fileItems) |-> CleanEl]
    /\ phase = "idle"
    /\ nextItem = 1
    /\ microtasks = <<>>
    /\ cssType = "text"
    /\ colorErrorQueue = <<>>
    /\ savePending = FALSE
    /\ applyPending = TRUE
    /\ lastOp = [op |-> "Init"]

\* the vault changes while the settings tab is left alone
NextVault == OnRename \/ OnDelete \/ SaveTimer

InitVault == InitOn(StoredFileColors)

SpecVault == InitVault /\ [][NextVault]_vars

\* the vault changes while a group is being edited
NextPreview ==
    \/ OnRename \/ OnDelete \/ SaveTimer
    \/ OnConfigureGroup \/ HandleSave \/ OnCancel

InitPreview == InitOn({<<[path |-> NoteX, color |-> "c2"]>>})

SpecPreview == InitPreview /\ [][NextPreview]_vars
----------------------------------------------------------------------------
(* The order of the groups under the reorder buttons *)

\* updatedGroups of onGroupMoveUp; the list itself when the group is first
MovedUp(gs, groupId) ==
    LET sortedGroups == SortByPriority(gs)
        index == FindIndex(sortedGroups, groupId)
    IN IF index > 1
       THEN Reprioritised(gs, groupId, RaisedPriority(sortedGroups[index - 1].priority),
                          sortedGroups[index - 1].id, sortedGroups[index].priority)
       ELSE gs

\* updatedGroups of onGroupMoveDown; the list itself when the group is last
MovedDown(gs, groupId) ==
    LET sortedGroups == SortByPriority(gs)
        index == FindIndex(sortedGroups, groupId)
    IN IF index < Len(sortedGroups)
       THEN Reprioritised(gs, groupId, LoweredPriority(sortedGroups[index + 1].priority),
                          sortedGroups[index + 1].id, sortedGroups[index].priority)
       ELSE gs

\* the groups have pairwise different priorities
DistinctPriorities(gs) ==
    \A i, j \in 1..Len(gs) : i # j => gs[i].priority # gs[j].priority

\* a session on a list of two or three groups of different priorities
OrderSessions ==
    {[loaded |-> Palette3, palette |-> Palette3, groups |-> gs,
      form |-> ClosedForm, minted |-> 0] :
        gs \in {list \in LoadedGroupLists(2) \cup LoadedGroupLists(3) :
                   DistinctPriorities(list)}}

NextOrder ==
    \/ OnAddGroup \/ HandleSave \/ OnCancel
    \/ OnRemoveGroup \/ OnGroupToggle \/ OnGroupMoveUp \/ OnGroupMoveDown

InitOrder == InitSessions(OrderSessions)

SpecOrder == InitOrder /\ [][NextOrder]_vars
----------------------------------------------------------------------------
(* Passes one after the other, on groups that are switched on and off *)

\* the first group takes its colour from the property "bg", the second, below
\* it, gives a palette colour; both match every item under X
RepaintGroups ==
    <<Group("g1", <<"a">>, Body(<<CondX>>, "c1", TRUE, "bg"), TRUE, 2),
      Group("g2", <<"b">>, Body(<<CondX>>, "c2", FALSE, ""), TRUE, 1)>>

InitRepaint ==
    /\ settings = [cascadeColors |-> FALSE, colorBackground |-> FALSE,
                   folderNotesCompatibility |-> FALSE,
                   palette |-> Palette3, fileColors |-> <<>>, groups |-> RepaintGroups]
    /\ \E bg \in BgValues :
          frontmatter = [p \in VaultPaths |->
                            IF p = NoteX
                            THEN Frontmatter([n \in {"bg"} \ (IF bg = Undefined THEN {"bg"} ELSE {})
                                                 |-> bg])
                            ELSE NoFrontmatter]
    /\ fileItems = <<FolderX, NoteX>>
    /\ el = [p \in Range(fileItems) |-> CleanEl]
    /\ phase = "idle"
    /\ nextItem = 1
    /\ microtasks = <<>>
    /\ cssType = "text"
    /\ palette = settings.palette
    /\ groups = settings.groups
    /\ colorErrorQueue = <<>>
    /\ disk = settings
    /\ savePending = FALSE
    /\ applyPending = TRUE
    /\ form = ClosedForm
    /\ minted = 0
    /\ lastOp = [op |-> "Init"]

NextRepaint ==
    \/ StartPass \/ VisitItem \/ ResumeCallback
    \/ OnGroupToggle \/ OnRemoveGroup

SpecRepaint == InitRepaint /\ [][NextRepaint]_vars
----------------------------------------------------------------------------
(* A pass over a folder and the items inside it that carry its name *)

\* the folder inside X that has the name of X
SubX == <<"X", "/", "X">>

\* the known items and the order they are visited in
FolderItemOrders ==
    {<<FolderX, NoteX>>, <<NoteX, FolderX>>,
     <<FolderX, TextX>>, <<FolderX, SubX>>,
     <<FolderX, NoteX, TextX>>, <<FolderX, SubX, TextX>>,
     <<NoteX, TextX>>, <<TextX, SubX>>}

\* the manual colours of the items inside X
RECURSIVE FolderFileColors(_)
FolderFileColors(entries) ==
    IF entries = <<>> THEN {<<>>}
    ELSE {first \o rest : first \in {<<>>, <<Head(entries)>>},
                          rest \in FolderFileColors(Tail(entries))}

\* no group, a group that colours the notes, a group that colours every item
\* under X, the folder included
FolderGroups ==
    {<<>>,
     <<Group("g1", <<"a">>, Body(<<CondMd>>, "c1", FALSE, ""), TRUE, 1)>>,
     <<Group("g1", <<"a">>, Body(<<CondX>>, "c1", FALSE, ""), TRUE, 1)>>}

InitFolders ==
    /\ \E notes \in BOOLEAN : \E gs \in FolderGroups :
       \E fc \in FolderFileColors(<<[path |-> NoteX, color |-> "c2"],
                                    [path |-> TextX, color |-> "c3"],
                                    [path |-> SubX, color |-> "c3"]>>) :
          settings = [cascadeColors |-> FALSE, colorBackground |-> FALSE,
                      folderNotesCompatibility |-> notes,
                      palette |-> Palette3, fileColors |-> fc, groups |-> gs]
    /\ frontmatter = [p \in VaultPaths |-> NoFrontmatter]
    /\ fileItems \in FolderItemOrders
    /\ el = [p \in Range(fileItems) |-> CleanEl]
    /\ phase = "idle"
    /\ nextItem = 1
    /\ microtasks = <<>>
    /\ cssType = "text"
    /\ palette = settings.palette
    /\ groups = settings.groups
    /\ colorErrorQueue = <<>>
    /\ disk = settings
    /\ savePending = FALSE
    /\ applyPending = TRUE
    /\ form = ClosedForm
    /\ minted = 0
    /\ lastOp = [op |-> "Init"]

SpecFolders == InitFolders /\ [][Next]_vars
----------------------------------------------------------------------------
(* Vocabulary of the properties *)

Items == Range(fileItems)

\* the manual colour entries stored for path p
ManualEntries(p) ==
    {i \in 1..Len(settings.fileColors) : settings.fileColors[i].path = p}

\* some item of the pass names folder p as the folder of its folder note
NoteOverridden(p) ==
    settings.folderNotesCompatibility /\ \E q \in Items : p \in FolderNoteTarget(q)

\* the items whose style is decided by the groups alone
GroupSubjects == {p \in Items : ManualEntries(p) = {} /\ ~NoteOverridden(p)}

\* every condition of a non-empty condition list holds for p
Matches(p, g) ==
    /\ g.conditions # <<>>
    /\ \A k \in 1..Len(g.conditions) : EvaluateCondition(p, g.conditions[k])

\* group i comes before group j in the priority-descending order, ties by
\* position in the list
Before(i, j) ==
    \/ settings.groups[i].priority > settings.groups[j].priority
    \/ settings.groups[i].priority = settings.groups[j].priority /\ i < j

\* the enabled groups that match p; those of them that give it a colour
Matching(p) ==
    {i \in 1..Len(settings.groups) :
        settings.groups[i].enabled /\ Matches(p, settings.groups[i])}
Colouring(p) == {i \in Matching(p) : HasColor(GroupColor(p, settings.groups[i]))}

\* the first element of a non-empty set of group indexes
First(I) == CHOOSE i \in I : \A j \in I \ {i} : Before(i, j)

Uncoloured(p) == el[p].classes = {} /\ el[p].style = <<>>

\* item p carries exactly the style of the given colour
Shows(p, color) ==
    /\ el[p].classes = FileColorClasses(color, cssType, settings.cascadeColors)
    /\ el[p].style = color.hex

\* C1: at the end of a pass an item with a manual colour entry carries the
\* class of the entry's palette colour id, whatever groups match it, and its
\* callback never waits on the evaluation of a group.
C1_ManualColorWins ==
    /\ \A k \in 1..Len(microtasks) : ManualEntries(microtasks[k].path) = {}
    /\ PassDone =>
         \A p \in Items : \A i \in ManualEntries(p) :
            ~NoteOverridden(p) =>
               /\ "file-color-color-" \o settings.fileColors[i].color \in el[p].classes
               /\ Shows(p, PaletteRef(settings.fileColors[i].color))

\* an item with a manual colour that an enabled group of another colour matches
C1_Witness ==
    /\ PassDone
    /\ \E p \in Items :
          /\ ManualEntries(p) # {} /\ ~NoteOverridden(p)
          /\ Colouring(p) # {}
          /\ "file-color-color-c3" \in el[p].classes

C4_FolderCarriesNoteStyle ==
    (PassDone /\ settings.folderNotesCompatibility) =>
       \A q \in Items : \A f \in FolderNoteTarget(q) \cap Items :
          (IsMarkdownFile(q) /\ el[q].classes # {}) =>
             /\ el[f].classes = el[q].classes
             /\ el[q].style # <<>> => el[f].style = el[q].style

\* C5: a group without conditions never matches: no callback waits on its
\* evaluation, and an item that no enabled group with conditions matches and
\* colours has no colour at the end of the pass.
C5_EmptyGroupNeverMatches ==
    /\ \A k \in 1..Len(microtasks) :
          microtasks[k].enabledGroups[microtasks[k].index].conditions # <<>>
    /\ PassDone =>
          \A p \in GroupSubjects :
             (\A i \in 1..Len(settings.groups) :
                 settings.groups[i].conditions # <<>> => i \notin Colouring(p))
             => Uncoloured(p)

\* an enabled group without conditions is first in the order, and an item
\* that nothing else colours stays without colour
C5_Witness ==
    /\ PassDone
    /\ \E p \in GroupSubjects : \E i \in 1..Len(settings.groups) :
          /\ settings.groups[i].enabled
          /\ settings.groups[i].conditions = <<>>
          /\ \A j \in 1..Len(settings.groups) : j # i => Before(i, j)
          /\ Colouring(p) = {}
          /\ Uncoloured(p)


\* the string value of the property "bg" of the note, trimmed
BgString == Trim(JsString(Prop(frontmatter[NoteX], "bg")))

\* the note, without a manual colour, is the item of a pass whose one group
\* takes its colour from "bg"
HexCase ==
    /\ PassDone
    /\ settings.groups = <<PropertyColorGroup>>
    /\ settings.fileColors = <<>>
    /\ fileItems = <<NoteX>>
    /\ Truthy(Prop(frontmatter[NoteX], "bg"))

\* C7 as claimed: a 3-digit or 6-digit hex string, with or without "#", gives
\* the literal colour "#" and six hex digits; any other value gives no colour.
C7_ThreeOrSixDigits ==
    HexCase =>
       LET digits == IF BgString # <<>> /\ Head(BgString) = "#" THEN Tail(BgString)
                     ELSE BgString
       IN IF Len(digits) \in {3, 6} /\ \A i \in 1..Len(digits) : digits[i] \in HexChars
          THEN /\ Len(el[NoteX].style) = 7
               /\ el[NoteX].style[1] = "#"
               /\ \A i \in 2..7 : el[NoteX].style[i] \in HexChars
          ELSE Uncoloured(NoteX)

\* C7 amended: the group gives a literal colour exactly when the trimmed value
\* is six hex digits, with or without a leading "#"; the colour is "#"
\* followed by the six digits as they are written, and every other value,
\* a 3-digit hex string included, gives no colour.
C7_SixDigitsOnly ==
    HexCase =>
       LET digits == IF BgString # <<>> /\ Head(BgString) = "#" THEN Tail(BgString)
                     ELSE BgString
       IN IF Len(digits) = 6 /\ \A i \in 1..6 : digits[i] \in HexChars
          THEN /\ el[NoteX].style = <<"#">> \o digits
               /\ el[NoteX].classes =
                     FileColorClasses(LiteralHex(<<>>), cssType, settings.cascadeColors)
          ELSE Uncoloured(NoteX)

\* six hex digits written without "#" and with surrounding blanks are taken
C7_Witness ==
    /\ HexCase
    /\ JsString(Prop(frontmatter[NoteX], "bg")) = <<" ", "a", "a", "a", "a", "a", "a">>
    /\ el[NoteX].style = <<"#", "a", "a", "a", "a", "a", "a">>

----------------------------------------------------------------------------
(* Vocabulary of the properties of the settings tab *)

IndexOfGroup(gs, id) == CHOOSE i \in 1..Len(gs) : gs[i].id = id
PriorityOf(gs, id) == gs[IndexOfGroup(gs, id)].priority

\* the place of a group in the priority-descending ordering, in which groups
\* of equal priority keep the order of the list
Position(gs, id) ==
    LET i == IndexOfGroup(gs, id)
    IN 1 + Cardinality({j \in 1..Len(gs) :
                           \/ gs[j].priority > gs[i].priority
                           \/ gs[j].priority = gs[i].priority /\ j < i})

GroupAt(gs, position) ==
    CHOOSE id \in {gs[i].id : i \in 1..Len(gs)} : Position(gs, id) = position

\* from gs to after, nothing but the priorities of groups a and b has changed
OnlyPrioritiesOf(gs, after, a, b) ==
    /\ Len(after) = Len(gs)
    /\ \A i \in 1..Len(gs) :
          /\ after[i] = [gs[i] EXCEPT !.priority = after[i].priority]
          /\ gs[i].id \notin {a, b} => after[i] = gs[i]

\* the priority values of a group list, as a multiset
PriorityBag(gs) ==
    [p \in {gs[i].priority : i \in 1..Len(gs)} |->
        Cardinality({i \in 1..Len(gs) : gs[i].priority = p})]

Exchanged(gs, after, a, b) ==
    /\ PriorityOf(after, a) = PriorityOf(gs, b)
    /\ PriorityOf(after, b) = PriorityOf(gs, a)
    /\ OnlyPrioritiesOf(gs, after, a, b)
    /\ PriorityBag(after) = PriorityBag(gs)

Passed(gs, after, a, b, step) ==
    /\ PriorityOf(after, a) = PriorityOf(gs, b) + step
    /\ PriorityOf(after, b) = PriorityOf(gs, a)
    /\ OnlyPrioritiesOf(gs, after, a, b)
    /\ PriorityBag(after) # PriorityBag(gs)

IsHexColor(value) ==
    /\ Len(value) = 7
    /\ value[1] = "#"
    /\ \A k \in 2..7 : value[k] \in HexChars

\* the colours of the edited palette whose value, once trimmed, is no hex colour
InvalidColors == {i \in 1..Len(palette) : ~IsHexColor(Trim(palette[i].value))}

\* colours i and j carry the same non-empty name, compared trimmed and
\* without regard to case
SameName(i, j) ==
    /\ Trim(palette[i].name) # <<>>
    /\ ToLowerCase(Trim(palette[i].name)) = ToLowerCase(Trim(palette[j].name))

NameSharers(i) == {j \in 1..Len(palette) : SameName(i, j)}
DuplicatedColors == {i \in 1..Len(palette) : Cardinality(NameSharers(i)) > 1}

\* the checks of a group save the form in hand fails
NameMissing == Trim(form.name) = <<>>
NameTaken ==
    \E i \in 1..Len(groups) :
        /\ groups[i].id # form.group.id
        /\ ToLowerCase(Trim(groups[i].name)) = ToLowerCase(Trim(form.name))
PatternMissing(c) == c.type = "regex" /\ c.pattern = <<>>
PatternInvalid(c) == c.type = "regex" /\ c.pattern # <<>> /\ ~RegExpCompiles(c.pattern)
PropertyNameMissing(c) == c.type = "property" /\ c.propertyName = ""
PropertyValueMissing(c) ==
    /\ c.type = "property" /\ c.propertyName # ""
    /\ c.propertyOperator # "exists" /\ c.propertyValue = <<>>
ConditionFails(c) ==
    PatternMissing(c) \/ PatternInvalid(c) \/ PropertyNameMissing(c) \/ PropertyValueMissing(c)
FailingConditions == {k \in 1..Len(form.conditions) : ConditionFails(form.conditions[k])}
ColorPropertyMissing == form.usePropertyAsColor /\ form.propertyNameForColor = ""
FormFails ==
    NameMissing \/ NameTaken \/ FailingConditions # {} \/ ColorPropertyMissing

\* C8: a palette save on a palette with a conflict and a group save on a form
\* that fails a check are rejected, with the error shown, and change nothing:
\* the live settings (palette, manual file colours, groups) and the group list
\* of the tab are as before, nothing is written and no write is scheduled.
C8_RejectedSaveChangesNothing ==
    [][/\ (lastOp'.op = "OnSave" /\ InvalidColors \cup DuplicatedColors # {}) =>
            /\ colorErrorQueue' # <<>>
            /\ settings' = settings /\ groups' = groups /\ palette' = palette
            /\ disk' = disk /\ savePending' = savePending
       /\ (lastOp'.op = "HandleSave" /\ FormFails) =>
            /\ form'.open /\ form'.error # NoError
            /\ settings' = settings /\ groups' = groups /\ palette' = palette
            /\ disk' = disk /\ savePending' = savePending]_vars

\* a group save has just been rejected in a tab whose palette save was
\* rejected before, the edited palette still differing from the committed one
C8_Witness ==
    /\ lastOp.op = "HandleSave"
    /\ form.open
    /\ form.error # NoError
    /\ colorErrorQueue # <<>>
    /\ Len(palette) < Len(settings.palette)
    /\ disk.palette = settings.palette
    /\ disk.groups = groups

\* C9: the error list of a palette save holds, all at once, one invalid-hex
\* entry for each colour whose value (trimmed of surrounding blanks, as the
\* save reads it) is not "#" and six hex digits, and one duplicate-name entry
\* for each set of colours sharing a non-empty name (trimmed, case-insensitive)
\* that lists the ids of all colours of the set; it holds nothing else.
C9_AllConflictsReported ==
    lastOp.op = "OnSave" =>
       /\ \A i \in InvalidColors :
             \E k \in 1..Len(colorErrorQueue) :
                /\ colorErrorQueue[k].errorType = "invalid-hex"
                /\ colorErrorQueue[k].colorIds = <<palette[i].id>>
       /\ \A i \in DuplicatedColors :
             \E k \in 1..Len(colorErrorQueue) :
                /\ colorErrorQueue[k].errorType = "duplicate-name"
                /\ Range(colorErrorQueue[k].colorIds) = {palette[j].id : j \in NameSharers(i)}
                /\ Len(colorErrorQueue[k].colorIds) = Cardinality(NameSharers(i))
       /\ Len(colorErrorQueue) =
             Cardinality(InvalidColors) + Cardinality({NameSharers(i) : i \in DuplicatedColors})

\* a save has reported two colours with a value that is no hex and a name
\* that three colours share
C9_Witness ==
    /\ lastOp.op = "OnSave"
    /\ Len(colorErrorQueue) = 3
    /\ Cardinality(InvalidColors) = 2
    /\ \E k \in 1..3 : Len(colorErrorQueue[k].colorIds) = 3

\* the error of the first check the form in hand fails, taking the checks in
\* the order: name, name uniqueness, each condition in list order (within a
\* condition its pattern or property name, then its property value), colour
\* property
FirstFailure ==
    IF NameMissing THEN "Group name is required"
    ELSE IF NameTaken THEN "A group with the name already exists"
    ELSE IF FailingConditions # {}
    THEN LET k == CHOOSE k \in FailingConditions : \A l \in FailingConditions : k <= l
             c == form.conditions[k]
         IN IF PatternMissing(c) THEN "Regex pattern is required"
            ELSE IF PatternInvalid(c) THEN "Invalid regex pattern: "
            ELSE IF PropertyNameMissing(c) THEN "Property name is required"
            ELSE "Property value is required"
    ELSE IF ColorPropertyMissing THEN "Property name for color is required"
    ELSE ""

\* C10: a group save shows the error of the first check that fails, in the
\* order name, name uniqueness, conditions in list order, colour property, and
\* commits nothing; when no check fails it commits the group of the form, with
\* the name trimmed, to the group list of the tab and to the persisted settings
\* and closes the form.
C10_FirstFailureOnly ==
    [][lastOp'.op = "HandleSave" =>
          IF FirstFailure # ""
          THEN /\ form'.open
               /\ form'.error.text = FirstFailure
               /\ groups' = groups /\ disk' = disk /\ settings' = settings
          ELSE /\ ~form'.open
               /\ \E i \in 1..Len(groups') :
                     /\ groups'[i].id = form.group.id
                     /\ groups'[i].name = Trim(form.name)
                     /\ groups'[i].conditions = form.conditions
                     /\ groups'[i].usePropertyAsColor = form.usePropertyAsColor
                     /\ groups'[i].propertyNameForColor = form.propertyNameForColor
               /\ disk'.groups = groups']_vars

\* a save was rejected for the second condition of the form, the first being
\* valid, although the colour property is missing as well
C10_Witness ==
    /\ lastOp.op = "HandleSave"
    /\ form.open
    /\ Len(form.conditions) = 2
    /\ ~ConditionFails(form.conditions[1])
    /\ form.error.text = "Property value is required"
    /\ ColorPropertyMissing


\* the ids of the colours of the edited palette
PaletteIds == {palette[i].id : i \in 1..Len(palette)}

\* seq without its elements that fail Keep, in their order
Subsequence(sub, seq, Keep(_)) ==
    \E pos \in [1..Len(sub) -> 1..Len(seq)] :
        /\ \A i \in 1..Len(sub) : sub[i] = seq[pos[i]]
        /\ \A i, j \in 1..Len(sub) : i < j => pos[i] < pos[j]
        /\ \A k \in 1..Len(seq) : Keep(seq[k]) <=> \E i \in 1..Len(sub) : pos[i] = k

\* C11: a successful palette save commits the edited palette, deletes every
\* manual file colour whose colour id is no longer in the palette, keeps every
\* other manual file colour (in their order), and leaves the groups as they
\* are, those whose colorId names a removed colour included.
C11_RemovalCascades ==
    [][(lastOp'.op = "OnSave" /\ InvalidColors \cup DuplicatedColors = {}) =>
          /\ settings'.palette = palette
          /\ Subsequence(settings'.fileColors, settings.fileColors,
                         LAMBDA fileColor : fileColor.color \in PaletteIds)
          /\ settings'.groups = settings.groups
          /\ groups' = groups]_vars

\* a save has removed two colours: the manual colour of one of them is gone,
\* the manual colour of the colour that stays is kept, and the group still
\* names the other removed colour
C11_Witness ==
    /\ lastOp.op = "OnSave"
    /\ colorErrorQueue = <<>>
    /\ Len(settings.palette) = 1
    /\ Len(settings.fileColors) = 1
    /\ settings.fileColors[1].color \in PaletteIds
    /\ Len(settings.groups) = 1
    /\ settings.groups[1].colorId \notin PaletteIds

\* the forEach of a pass over the items in the given order, each callback run
\* up to its first await
RECURSIVE VisitAll(_, _, _)
VisitAll(dom, queue, order) ==
    IF order = <<>> THEN [dom |-> dom, queue |-> queue]
    ELSE LET r == BeginItem(dom, queue, Head(order))
         IN VisitAll(r.dom, r.queue, Tail(order))

\* the suspended callbacks run to their end, head of the queue first
RECURSIVE Drain(_, _)
Drain(dom, queue) ==
    IF queue = <<>> THEN dom
    ELSE LET r == ResumeItem(dom, queue)
         IN Drain(r.dom, r.queue)

\* the styles at the end of a pass over the items in the given order, run on
\* the settings and metadata in hand from the styles dom
PassResult(dom, order) ==
    LET visited == VisitAll(dom, <<>>, order)
    IN Drain(visited.dom, visited.queue)

\* the orders in which the known items can be visited
Schedules == {order \in ItemOrders : Range(order) = Items}

\* the style an item carries after a pass gave it a colour taken from a property
HexStyled ==
    [classes |-> FileColorClasses(LiteralHex(<<>>), "text", FALSE),
     style |-> <<"#", "1", "a", "F", "0", "0", "0">>]

\* styles an earlier pass can have left on the items
EarlierStyles == {[p \in Items |-> CleanEl], [p \in Items |-> HexStyled]}

\* C12: a pass on the same manual colours, groups, flags, metadata and set of
\* items ends with the same style on every item, in whatever order the items
\* are visited and whatever styles an earlier pass left.
C12_PassDeterministic ==
    PassDone =>
       \A order \in Schedules : \A dom \in EarlierStyles :
          PassResult(dom, order) = el

Reversed(seq) == [i \in 1..Len(seq) |-> seq[Len(seq) + 1 - i]]

\* item p carries the class of the palette colour of group g
ColouredBy(dom, p, g) == "file-color-color-" \o g.colorId \in dom[p].classes

\* C13: the callback resumed on a group treats it as matching exactly when
\* every condition of its (non-empty) list evaluates to true for the path, and
\* would do the same on the list in reverse order: on a match the item takes
\* the group's colour, otherwise it takes nothing from this group.
C13_AllConditionsRequired ==
    [][lastOp'.op = "ResumeCallback" =>
          LET job == Head(microtasks)
              group == job.enabledGroups[job.index]
              allHold == \A k \in 1..Len(group.conditions) :
                             EvaluateCondition(job.path, group.conditions[k])
          IN /\ group.conditions # <<>>
             /\ allHold <=> ColouredBy(el', job.path, group)
             /\ allHold <=> AllConditionsMatch(
                                ConditionsResults(job.path,
                                                  [group EXCEPT !.conditions = Reversed(@)]))]_vars

\* the first condition of a group of two holds for an item and the second
\* does not: the item does not have the group's colour
C13_Witness ==
    /\ PassDone
    /\ \E p \in Items :
          LET group == settings.groups[1]
          IN /\ Len(group.conditions) = 2
             /\ EvaluateCondition(p, group.conditions[1])
             /\ ~EvaluateCondition(p, group.conditions[2])
             /\ ~ColouredBy(el, p, group)

IsContains(c) == c.type = "property" /\ c.propertyOperator = "contains"

\* s has target as a substring
HasSubstring(s, target) ==
    \E i \in 0..Len(s) : \E j \in i..Len(s) : SubSeq(s, i + 1, j) = target

\* the file has metadata with the property of c, and the property, when a
\* list, has an element equal to the target value, and when a scalar, has the
\* target value as a substring
ContainsHolds(p, c) ==
    /\ frontmatter[p].present
    /\ c.propertyName \in DOMAIN frontmatter[p].props
    /\ LET value == frontmatter[p].props[c.propertyName]
       IN IF value.t = "array"
          THEN \E i \in 1..Len(value.v) : value.v[i] = c.propertyValue
          ELSE HasSubstring(value.v, c.propertyValue)

\* C14: at the end of a pass an item has the colour of a group whose one
\* condition is a contains condition exactly when its file has metadata with
\* the named property and, for a list value, some element equals the target
\* value, for a scalar value, the value contains the target as a substring.
C14_ContainsByElementOrSubstring ==
    PassDone =>
       \A p \in Items :
          LET group == settings.groups[1]
          IN (Len(group.conditions) = 1 /\ IsContains(group.conditions[1])) =>
                (ColouredBy(el, p, group) <=> ContainsHolds(p, group.conditions[1]))

\* the list value of the note joins to a string that contains the target,
\* but no element equals it: the group does not colour the note
C14_Witness ==
    /\ PassDone
    /\ LET group == settings.groups[1]
           value == Prop(frontmatter[NoteX], "tags")
       IN /\ Len(group.conditions) = 1 /\ IsContains(group.conditions[1])
          /\ value.t = "array"
          /\ HasSubstring(JsString(value), group.conditions[1].propertyValue)
          /\ ~ColouredBy(el, NoteX, group)

\* a regex condition whose pattern does not compile
Malformed(c) == c.type = "regex" /\ ~RegExpCompiles(c.pattern)

\* the groups that colour p among those without a malformed condition
SoundColouring(p) ==
    {i \in Colouring(p) :
        \A k \in 1..Len(settings.groups[i].conditions) :
            ~Malformed(settings.groups[i].conditions[k])}

\* C15: a group with a regex condition that does not compile matches no item,
\* and the pass goes on: it comes to its end, and at its end every item has the
\* style the remaining groups give it, no colour when none of them colours it.
C15_MalformedPatternContained ==
    /\ <>PassDone
    /\ [](PassDone =>
            \A p \in Items :
               IF SoundColouring(p) = {} THEN Uncoloured(p)
               ELSE Shows(p, GroupColor(p, settings.groups[First(SoundColouring(p))])))

\* the first group has a condition that holds and a pattern that does not
\* compile; every item has the colour of the group below it
C15_Witness ==
    /\ PassDone
    /\ Len(settings.groups) = 2
    /\ settings.groups[1].conditions = <<CondX, CondBad>>
    /\ \A p \in Items : ColouredBy(el, p, settings.groups[2])

\* every colour has a value that is "#" and six hex digits, and no two colours
\* carry the same non-empty name, compared trimmed and without regard to case
PaletteSound(p) ==
    /\ \A i \in 1..Len(p) : IsHexColor(p[i].value)
    /\ \A i, j \in 1..Len(p) :
          (i # j /\ Trim(p[i].name) # <<>>) =>
             ToLowerCase(Trim(p[i].name)) # ToLowerCase(Trim(p[j].name))

\* C16: whatever has been added, removed, renamed and recoloured in the
\* editor, and whether a save was accepted or rejected or the edits reverted,
\* the committed palette (live and persisted) has only values that are "#" and
\* six hex digits and no non-empty name twice (trimmed, case-insensitive).
C16_CommittedPaletteSound ==
    PaletteSound(settings.palette) /\ PaletteSound(disk.palette)

\* a save has committed a recoloured colour and a colour renamed to a name
\* that, up to case and blanks, the removed first colour carried
C16_Witness ==
    /\ lastOp.op = "OnSave"
    /\ colorErrorQueue = <<>>
    /\ settings.palette # disk.palette
    /\ \E i, j \in 1..Len(settings.palette) :
          /\ settings.palette[i].name = <<"r", " ">>
          /\ settings.palette[j].value = <<"#", "0", "0", "0", "0", "0", "0">>
          /\ settings.palette[j].id = "c3"

\* every group has a name and no two groups have the same name, compared
\* trimmed and without regard to case
GroupNamesSound(gs) ==
    /\ \A i \in 1..Len(gs) : Trim(gs[i].name) # <<>>
    /\ \A i, j \in 1..Len(gs) :
          i # j => ToLowerCase(Trim(gs[i].name)) # ToLowerCase(Trim(gs[j].name))

\* C17: whatever groups have been created, edited, deleted, toggled and
\* reordered, every committed group (in the list of the tab and in the
\* persisted settings) has a non-empty name and no two of them have the same
\* name, compared trimmed and case-insensitively.
C17_GroupNamesUnique ==
    GroupNamesSound(groups) /\ GroupNamesSound(disk.groups)

\* a new group has been saved under a name of its own, next to two groups
C17_Witness ==
    /\ lastOp.op = "HandleSave"
    /\ ~form.open
    /\ Len(groups) = 3
    /\ groups[3].id = NanoIds[1]
    /\ groups[3].name = <<"n">>
    /\ disk.groups = groups

\* callbacks of the pass are still to run
InFlight == phase = "pass" /\ ~PassDone

Resolved(p) ==
    IF ManualEntries(p) # {} THEN ManualColor(p)
    ELSE IF Colouring(p) = {} THEN NoColor
    ELSE GroupColor(p, settings.groups[First(Colouring(p))])

\* every item shows the classes of the colour the settings in hand give it
StylesCurrent ==
    \A p \in Items :
       el[p].classes =
          IF HasColor(Resolved(p))
          THEN FileColorClasses(Resolved(p),
                                IF settings.colorBackground THEN "background" ELSE "text",
                                settings.cascadeColors)
          ELSE {}

\* a handler of the tab or of the form calls plugin.applyColorStyles()
PassRequested ==
    /\ lastOp'.op \in {"OnConfigureGroup", "HandleSave", "OnCancel",
                       "OnRemoveGroup", "OnGroupToggle"}
    /\ settings' # settings

C20_SavedGroupStaysLive ==
    /\ [][(lastOp'.op = "HandleSave" /\ ~form'.open) =>
             /\ \E i \in 1..Len(settings'.groups) :
                   /\ settings'.groups[i].id = form.group.id
                   /\ settings'.groups[i].name = Trim(form.name)
                   /\ settings'.groups[i].colorId = form.colorId
                   /\ settings'.groups[i].conditions = form.conditions
             /\ settings'.groups = disk'.groups]_vars
    /\ [](~form.open => settings.groups = groups)

----------------------------------------------------------------------------
(* Vocabulary of the properties of the vault events *)

\* a group of the persisted list is the preview of an edit in progress
PreviewPersisted ==
    \E i \in 1..Len(disk.groups) :
        /\ disk.groups[i].priority = PreviewPriority
        /\ ~InSeq(disk.groups[i], groups)

\* C21: the preview group of an edit in progress is never written to the
\* persisted settings: whatever write put them there, immediate or debounced,
\* the persisted groups are groups of the committed list of the tab.
C21_PreviewNeverPersisted ==
    /\ ~PreviewPersisted
    /\ \A i \in 1..Len(disk.groups) : InSeq(disk.groups[i], groups)

\* path lies inside the folder
Inside(path, folder) == StartsWith(path, folder \o <<"/">>)

\* what is left of the manual colours when the entries of path and of the
\* paths inside it are taken out
WithoutSubtree(fileColors, path) ==
    SelectSeq(fileColors,
              LAMBDA fileColor : fileColor.path # path /\ ~Inside(fileColor.path, path))

\* C23: when the vault reports that path P was deleted, the manual colours
\* removed are exactly those whose path is P or lies inside the folder P; the
\* entry of every other path, a path that merely begins with the characters
\* of P included, is left as it was.
C23_DeleteRemovesSubtreeOnly ==
    [][lastOp'.op = "OnDelete" =>
          settings'.fileColors = WithoutSubtree(settings.fileColors, lastOp'.path)]_vars

\* C26: when the vault reports that an item was renamed from oldPath to
\* newPath, every manual colour entry of oldPath is afterwards an entry of
\* newPath with the same colour id, in the same place of the list; no entry
\* of oldPath remains, the entries of all other paths are as they were and
\* the number of entries has not changed.
C26_RenameMovesEntry ==
    [][lastOp'.op = "OnRename" =>
          LET before == settings.fileColors
              after == settings'.fileColors
          IN /\ Len(after) = Len(before)
             /\ \A i \in 1..Len(before) :
                   IF before[i].path = lastOp'.oldPath
                   THEN after[i] = [path |-> lastOp'.newPath, color |-> before[i].color]
                   ELSE after[i] = before[i]
             /\ \A i \in 1..Len(after) : after[i].path # lastOp'.oldPath]_vars

\* the folder X has been renamed to Y: its colour is now stored for Y, while
\* the note inside it and the note next to it have the entries they had
C26_Witness ==
    /\ lastOp = [op |-> "OnRename", oldPath |-> FolderX, newPath |-> FolderY]
    /\ settings.fileColors =
          <<[path |-> FolderY, color |-> "c1"], [path |-> NoteX, color |-> "c2"],
            [path |-> SiblingX, color |-> "c3"]>>

----------------------------------------------------------------------------
(* Vocabulary of the properties of the order of the groups *)

\* the ids of the groups in the priority-descending ordering
Ordering(gs) == Ids(SortByPriority(gs))

\* from gs to after, group a has gone from its position to the next one in
\* the given direction, its neighbour there has taken the position of a, and
\* every other group is at the position it had
MovedByOne(gs, after, a, direction) ==
    LET i == Position(gs, a)
        b == GroupAt(gs, i + direction)
    IN /\ Position(after, a) = i + direction
       /\ Position(after, b) = i
       /\ \A k \in 1..Len(gs) :
             gs[k].id \notin {a, b} => Position(after, gs[k].id) = Position(gs, gs[k].id)

\* C22: after any sequence of add, move, toggle and remove operations on
\* groups that started with pairwise different priorities, a move up of the
\* group at position i > 1 of the priority-descending ordering puts it at
\* position i - 1 and its predecessor at position i, a move down is the
\* mirror image, every other group keeps its position, and the opposite move
\* of the same group then restores the ordering.
C22_MoveByOnePosition ==
    [][/\ lastOp'.op = "OnGroupMoveUp" =>
            /\ MovedByOne(groups, groups', lastOp'.groupId, -1)
            /\ Ordering(MovedDown(groups', lastOp'.groupId)) = Ordering(groups)
       /\ lastOp'.op = "OnGroupMoveDown" =>
            /\ MovedByOne(groups, groups', lastOp'.groupId, 1)
            /\ Ordering(MovedUp(groups', lastOp'.groupId)) = Ordering(groups)]_vars

----------------------------------------------------------------------------
(* Vocabulary of the properties of passes run one after the other *)

\* the last pass has run to its end and the settings have not changed since
\* it started
PassCurrent == PassDone /\ ~applyPending

\* C24: after any sequence of passes with changing settings, an item carries
\* an inline literal-hex colour property only when the latest pass gave that
\* item a literal hex, and then that hex: an item whose style in the latest
\* pass is a palette reference or no colour carries none.
C24_NoStaleInlineHex ==
    PassCurrent =>
       \A p \in Items :
          IF Resolved(p).isHexColor THEN el[p].style = Resolved(p).hex
          ELSE el[p].style = <<>>

----------------------------------------------------------------------------
(* Vocabulary of the properties of the folder notes *)

\* the style the item's own resolution gives it
OwnStyle(p) ==
    IF HasColor(Resolved(p))
    THEN [classes |-> FileColorClasses(Resolved(p), cssType, settings.cascadeColors),
          style |-> Resolved(p).hex]
    ELSE CleanEl

\* the note of folder f: the markdown file directly inside f that has its name
FolderNoteOf(f) ==
    f \o <<"/">> \o SubstringFrom(f, LastIndexOf(f, "/")) \o <<".", "m", "d">>

\* C25: at the end of a pass from clean items, an item carries a style other
\* than that of its own resolution only when folder-notes compatibility is
\* on, the item is a folder X, and the markdown file X.md directly inside X
\* is a known item that resolved to a colour, whose style the folder then
\* carries; no other coloured item (a file X.ext that is no note, a folder
\* X/X) changes the style of folder X, and no item is changed when the
\* folder is not a known item.
C25_OnlyFolderNoteStylesFolder ==
    PassDone =>
       \A f \in Items :
          el[f] # OwnStyle(f) =>
             /\ settings.folderNotesCompatibility
             /\ FolderNoteOf(f) \in Items
             /\ IsMarkdownFile(FolderNoteOf(f))
             /\ HasColor(Resolved(FolderNoteOf(f)))
             /\ el[f] = OwnStyle(FolderNoteOf(f))
====
